---- MODULE Spec2Model ----
(***************************************************************************)
(* Model of the packing2D bin engine (src/src/core/Bin.cpp,                *)
(* src/src/primitives/MArea.cpp, src/src/primitives/Rectangle.h), of the   *)
(* driver BinPacking::pack (src/src/core/BinPacking.cpp), of the SIGINT    *)
(* flag (src/src/utils/SignalHandler.cpp) and of the no-fit-polygon        *)
(* manager (src/src/core/NFPManager.cpp).                                  *)
(*                                                                         *)
(* Geometry.  Coordinates are integers counting 1/Unit of a program unit,  *)
(* so that the step sizes the code derives by division (dive: w/3, sweep:  *)
(* w/10 and h/2) are exact for pieces whose bounding boxes measure whole   *)
(* program units.  Arithmetic is exact; the rounding of IEEE doubles is    *)
(* not represented.  A piece's shape (a Boost multi_polygon) is a set of   *)
(* closed axis-aligned rectangles with disjoint interiors; every piece of  *)
(* the catalogue is a rectangle or an L-shaped hexagon.  Rotations are     *)
(* the multiples of 90 degrees.                                            *)
(***************************************************************************)
EXTENDS Integers, Sequences, FiniteSets, Bags, TLC

\* a Bin object driven through its public operations
VARIABLES placedPieces, freeRectangles, placedPiecesRTree, nextId, lastOp, ret
\* one call of BinPacking::pack: its argument pieces (inputPieces), its
\* locals and its position
VARIABLES inputPieces, bins, toPlace, stillNotPlaced, lastLoopUnplacedCount, pc
\* the flag the SIGINT handler sets
VARIABLES g_interrupt_received
\* one NFPManager: the build it was compiled in, its members, the call that
\* returned last with its arguments and result, and the lookups of
\* getCachedNFP since the last clearCache
VARIABLES HAVE_CLIPPER2, nfpManager, nfpCall, nfpHistory
\* one call of Utils::loadPieces: the input file, and what the call returned
VARIABLES file, loadResult
\* one MArea object in a caller's hands: the piece as it was constructed and
\* positioned, the piece now, and the angles of the rotate calls made on it
VARIABLES marea0, marea, mareaCalls
\* one call of Bin::compress taken statement by statement: where the call
\* stands, the index of the for loop, and the locals moved_in_pass of
\* compress and moved_in_iter, total_moves of compressPiece
VARIABLES compressPc, compressIndex, moved_in_pass, moved_in_iter, total_moves
\* one call of Bin::findWhereToPlace: its arguments, whether the build has
\* the parallel algorithms, the locals bestPlacement and minWastage (one
\* record), where the call stands, and for each index handed to
\* std::for_each the angle its checkPlacement is at
VARIABLES searchPiece, useParallel, cpp_lib_parallel_algorithm, bestPlacement,
          searchPc, worker

binVars == <<placedPieces, freeRectangles, placedPiecesRTree, nextId, lastOp, ret>>
packVars == <<inputPieces, bins, toPlace, stillNotPlaced, lastLoopUnplacedCount, pc>>
vars == <<placedPieces, freeRectangles, placedPiecesRTree, nextId, lastOp, ret,
          inputPieces, bins, toPlace, stillNotPlaced, lastLoopUnplacedCount, pc,
          g_interrupt_received, HAVE_CLIPPER2, nfpManager, nfpCall, nfpHistory,
          file, loadResult, marea0, marea, mareaCalls,
          compressPc, compressIndex, moved_in_pass, moved_in_iter, total_moves,
          searchPiece, useParallel, cpp_lib_parallel_algorithm, bestPlacement,
          searchPc, worker>>
nfpVars == <<HAVE_CLIPPER2, nfpManager, nfpCall, nfpHistory>>
loadVars == <<file, loadResult>>
\* what the packing and the NFPManager never touch
mareaVars == <<marea0, marea, mareaCalls>>
compressVars == <<compressPc, compressIndex, moved_in_pass, moved_in_iter, total_moves>>
searchVars == <<searchPiece, useParallel, cpp_lib_parallel_algorithm, bestPlacement,
                searchPc, worker>>
unitVars == <<loadVars, mareaVars, compressVars, searchVars>>

\* ------------------------------------------------------------------ bounds
BinW == 3
BinH == 4
MaxPieces == 3
MaxInput == 2
MaxPack == 3
MaxStale == 1

\* ------------------------------------------------------- program constants
DIVE_HORIZONTAL_DISPLACEMENT_FACTOR == 3
DX_SWEEP_FACTOR == 10
DY_SWEEP_FACTOR == 2
STAGE1_ROTATION_ANGLES == <<0, 90, 180, 270>>
\* the right-angle members of the 72-entry array of Constants.h
STAGE23_ROTATION_ANGLES == <<0, 90, 180, 270>>

\* model units per program unit: a common multiple of the three factors
Unit == DIVE_HORIZONTAL_DISPLACEMENT_FACTOR * DX_SWEEP_FACTOR

Min2(a, b) == IF a < b THEN a ELSE b
Max2(a, b) == IF a > b THEN a ELSE b

\* --------------------------------------------------- Rectangle2D (box)
Rect(x1, y1, x2, y2) == [x1 |-> x1, y1 |-> y1, x2 |-> x2, y2 |-> y2]

getX(r) == r.x1
getY(r) == r.y1
getMaxX(r) == r.x2
getMaxY(r) == r.y2
getWidth(r) == r.x2 - r.x1
getHeight(r) == r.y2 - r.y1
RectArea(r) == getWidth(r) * getHeight(r)

\* bg::intersects(box, box): closed boxes, a shared border point counts
intersects(r1, r2) ==
    /\ r1.x1 <= r2.x2 /\ r2.x1 <= r1.x2
    /\ r1.y1 <= r2.y2 /\ r2.y1 <= r1.y2

\* bg::within(contained, container) for boxes: borders may coincide, the
\* contained box must have an interior
contains(container, contained) ==
    /\ container.x1 <= contained.x1 /\ contained.x2 <= container.x2
    /\ contained.x1 < contained.x2
    /\ container.y1 <= contained.y1 /\ contained.y2 <= container.y2
    /\ contained.y1 < contained.y2

\* bg::intersection(box, box, out)
createIntersection(r1, r2) ==
    Rect(Max2(r1.x1, r2.x1), Max2(r1.y1, r2.y1),
         Min2(r1.x2, r2.x2), Min2(r1.y2, r2.y2))

\* variant of fits that asks for room to spare
fitsStrictly(o1, o2) == getHeight(o1) < getHeight(o2) /\ getWidth(o1) < getWidth(o2)

fits(o1, o2) == getHeight(o1) <= getHeight(o2) /\ getWidth(o1) <= getWidth(o2)

dimension == Rect(0, 0, BinW * Unit, BinH * Unit)

\* ------------------------------------------------------------- MArea
\* A piece is [id, rotation, area, shape, bbox].  shape is a set of
\* rectangles; area is the member MArea::area; bbox is bg::envelope(shape),
\* computed where the shape changes (constructor, move, rotate) and read by
\* getBoundingBox2D.
MaxOf(S) == CHOOSE m \in S : \A n \in S : m >= n

RECURSIVE SumArea(_)
SumArea(S) ==
    IF S = {} THEN 0
    ELSE LET r == CHOOSE q \in S : TRUE IN RectArea(r) + SumArea(S \ {r})

\* bg::envelope of a set of boxes: the smallest box around them
RECURSIVE Envelope(_)
Envelope(S) ==
    LET around(r) ==
            IF S = {r} THEN r
            ELSE LET join(e) == Rect(Min2(r.x1, e.x1), Min2(r.y1, e.y1),
                                     Max2(r.x2, e.x2), Max2(r.y2, e.y2))
                 IN join(Envelope(S \ {r}))
    IN around(CHOOSE q \in S : TRUE)

MArea(shape, id) ==
    [id |-> id, rotation |-> 0, area |-> SumArea(shape), shape |-> shape,
     bbox |-> Envelope(shape)]

getArea(p) == p.area

getBoundingBox2D(p) == p.bbox

getFreeArea(p) == RectArea(getBoundingBox2D(p)) - getArea(p)

\* MArea::intersection is bg::intersects on the two shapes: true as soon as
\* the closed shapes share one point, an edge or a corner included
intersection(p, q) ==
    \E r \in p.shape : \E s \in q.shape : intersects(r, s)

isInside(p, rect) == contains(rect, getBoundingBox2D(p))

Translate(r, vx, vy) == Rect(r.x1 + vx, r.y1 + vy, r.x2 + vx, r.y2 + vy)

move(p, vx, vy) ==
    [p EXCEPT !.shape = {Translate(r, vx, vy) : r \in p.shape},
              !.bbox = Translate(p.bbox, vx, vy)]

\* variant of QuarterTurn that turns about the min corner of bb
QuarterTurnAboutCorner(shape, bb) ==
    LET a == bb.x1 - bb.y1
        b == bb.x1 + bb.y1
    IN {Rect(a + r.y1, b - r.x2, a + r.y2, b - r.x1) : r \in shape}

\* one quarter turn about the centre of the bounding box bb, in the
\* direction of Boost's rotate_transformer (clockwise): (dx, dy) -> (dy, -dx)
QuarterTurn(shape, bb) ==
    LET sx == bb.x1 + bb.x2
        sy == bb.y1 + bb.y2
        a == (sx - sy) \div 2
        b == (sx + sy) \div 2
    IN {Rect(a + r.y1, b - r.x2, a + r.y2, b - r.x1) : r \in shape}

RECURSIVE Turns(_, _)
Turns(shape, k) ==
    IF k = 0 THEN shape
    ELSE Turns(QuarterTurn(shape, Envelope(shape)), k - 1)

rotate(p, degrees) ==
    LET turned(shape) == [p EXCEPT !.rotation = (p.rotation + degrees) % 360,
                                   !.shape = shape,
                                   !.bbox = Envelope(shape)]
    IN turned(Turns(p.shape, degrees \div 90))

placeInPosition(p, x, y) ==
    LET bbox == getBoundingBox2D(p)
    IN move(p, x - getX(bbox), y - getY(bbox))

\* --------------------------------------------------------- the bin record
\* Operators below work on a record of the three mutable members of Bin.
BinRec(pp, fr, rt) ==
    [placedPieces |-> pp, freeRectangles |-> fr, placedPiecesRTree |-> rt]

RTreeValue(box, idx) == [box |-> box, idx |-> idx]
RTreeInsert(rt, v) == rt (+) SetToBag({v})
\* rtree::remove(value) takes out one stored value equal to v, if any
RTreeRemove(rt, v) == rt (-) SetToBag({v})

\* Bin::isCollision; ignored = 0 stands for std::nullopt, indices are the
\* code's index + 1
isCollision(b, piece, ignored) ==
    LET query(pieceBB) ==
            \E c \in BagToSet(b.placedPiecesRTree) :
                /\ intersects(c.box, pieceBB)
                /\ c.idx # ignored
                /\ intersection(piece, b.placedPieces[c.idx])
    IN query(getBoundingBox2D(piece))

\* ------------------------------------------------------ findWhereToPlace
\* Placement with the running minimum; rectIndex is the code's 0-based index
\* and -1 when nothing fits.  minWastage starts at the largest double, which
\* every real wastage is below: the first fit is taken when rectIndex = -1.
NoPlacement == [rectIndex |-> -1, rotationAngle |-> 0, minWastage |-> 0]

\* variant of checkAngles that also takes a pair whose wastage equals the
\* minimum
RECURSIVE checkAnglesLastWins(_, _, _, _, _)
checkAnglesLastWins(freeRect, piece, i, a, best) ==
    IF a > Len(STAGE1_ROTATION_ANGLES) THEN best
    ELSE LET angle == STAGE1_ROTATION_ANGLES[a]
             update(pieceBB) ==
                 LET wastage == Min2(getWidth(freeRect) - getWidth(pieceBB),
                                     getHeight(freeRect) - getHeight(pieceBB))
                 IN IF /\ (best.rectIndex = -1 \/ wastage <= best.minWastage)
                       /\ fits(pieceBB, freeRect)
                    THEN checkAnglesLastWins(freeRect, piece, i, a + 1,
                                             [rectIndex |-> i, rotationAngle |-> angle,
                                              minWastage |-> wastage])
                    ELSE checkAnglesLastWins(freeRect, piece, i, a + 1, best)
         IN update(getBoundingBox2D(IF angle > 0 THEN rotate(piece, angle) ELSE piece))

\* the loop over STAGE1_ROTATION_ANGLES inside the lambda checkPlacement
RECURSIVE checkAngles(_, _, _, _, _)
checkAngles(freeRect, piece, i, a, best) ==
    IF a > Len(STAGE1_ROTATION_ANGLES) THEN best
    ELSE LET angle == STAGE1_ROTATION_ANGLES[a]
             update(pieceBB) ==
                 LET wastage == Min2(getWidth(freeRect) - getWidth(pieceBB),
                                     getHeight(freeRect) - getHeight(pieceBB))
                 IN IF /\ (best.rectIndex = -1 \/ wastage < best.minWastage)
                       /\ fits(pieceBB, freeRect)
                    THEN checkAngles(freeRect, piece, i, a + 1,
                                     [rectIndex |-> i, rotationAngle |-> angle,
                                      minWastage |-> wastage])
                    ELSE checkAngles(freeRect, piece, i, a + 1, best)
         IN update(getBoundingBox2D(IF angle > 0 THEN rotate(piece, angle) ELSE piece))

checkPlacement(fr, piece, i, best) == checkAngles(fr[i + 1], piece, i, 1, best)

RECURSIVE findLoop(_, _, _, _)
findLoop(fr, piece, i, best) ==
    IF i < 0 THEN best
    ELSE findLoop(fr, piece, i - 1, checkPlacement(fr, piece, i, best))

findWhereToPlace(b, piece) ==
    findLoop(b.freeRectangles, piece, Len(b.freeRectangles) - 1, NoPlacement)

\* ------------------------------------------------- computeFreeRectangles
\* variant of SplitAround that cuts the right slab off at the top of the
\* placed box
SplitAroundGuillotine(freeR, rI) ==
    (IF getMaxY(freeR) - getMaxY(rI) > 0
     THEN <<Rect(getX(freeR), getMaxY(rI), getMaxX(freeR), getMaxY(freeR))>> ELSE <<>>)
    \o (IF getY(rI) - getY(freeR) > 0
        THEN <<Rect(getX(freeR), getY(freeR), getMaxX(freeR), getY(rI))>> ELSE <<>>)
    \o (IF getX(rI) - getX(freeR) > 0
        THEN <<Rect(getX(freeR), getY(freeR), getX(rI), getMaxY(freeR))>> ELSE <<>>)
    \o (IF getMaxX(freeR) - getMaxX(rI) > 0
        THEN <<Rect(getMaxX(rI), getY(freeR), getMaxX(freeR), getMaxY(rI))>> ELSE <<>>)

\* the slabs of freeR around its intersection rI with the placed box
SplitAround(freeR, rI) ==
    (IF getMaxY(freeR) - getMaxY(rI) > 0
     THEN <<Rect(getX(freeR), getMaxY(rI), getMaxX(freeR), getMaxY(freeR))>> ELSE <<>>)
    \o (IF getY(rI) - getY(freeR) > 0
        THEN <<Rect(getX(freeR), getY(freeR), getMaxX(freeR), getY(rI))>> ELSE <<>>)
    \o (IF getX(rI) - getX(freeR) > 0
        THEN <<Rect(getX(freeR), getY(freeR), getX(rI), getMaxY(freeR))>> ELSE <<>>)
    \o (IF getMaxX(freeR) - getMaxX(rI) > 0
        THEN <<Rect(getMaxX(rI), getY(freeR), getMaxX(freeR), getMaxY(freeR))>> ELSE <<>>)

SplitFree(freeR, bb) ==
    IF ~intersects(freeR, bb) THEN <<freeR>>
    ELSE SplitAround(freeR, createIntersection(freeR, bb))

RECURSIVE computeFreeRectangles(_, _)
computeFreeRectangles(fr, justPlacedPieceBB) ==
    IF fr = <<>> THEN <<>>
    ELSE SplitFree(Head(fr), justPlacedPieceBB)
         \o computeFreeRectangles(Tail(fr), justPlacedPieceBB)

\* ---------------------------------------------------------------- sorting
\* std::sort on the short sequences of the model is libstdc++'s insertion
\* sort: an element goes behind every element that does not compare after it
RECURSIVE InsertPiece(_, _)
InsertPiece(sorted, e) ==
    IF sorted = <<>> THEN <<e>>
    ELSE IF getArea(e) > getArea(Head(sorted)) THEN <<e>> \o sorted
    ELSE <<Head(sorted)>> \o InsertPiece(Tail(sorted), e)

RECURSIVE SortPiecesFrom(_, _)
SortPiecesFrom(sorted, rest) ==
    IF rest = <<>> THEN sorted
    ELSE SortPiecesFrom(InsertPiece(sorted, Head(rest)), Tail(rest))

\* the comparator a.getArea() > b.getArea() of every piece sort
SortPiecesByArea(pieces) == SortPiecesFrom(<<>>, pieces)

RECURSIVE InsertRect(_, _)
InsertRect(sorted, e) ==
    IF sorted = <<>> THEN <<e>>
    ELSE IF RectArea(e) > RectArea(Head(sorted)) THEN <<e>> \o sorted
    ELSE <<Head(sorted)>> \o InsertRect(Tail(sorted), e)

RECURSIVE SortRectsFrom(_, _)
SortRectsFrom(sorted, rest) ==
    IF rest = <<>> THEN sorted
    ELSE SortRectsFrom(InsertRect(sorted, Head(rest)), Tail(rest))

SortRectsByArea(rects) == SortRectsFrom(<<>>, rects)

\* --------------------------------------------------- eliminateNonMaximal
\* the predicate of remove_if: some other slot of the vector, as it is at
\* that moment, holds a rectangle containing the one in slot i
NonMaximal(rects, i) ==
    \E k \in 1..Len(rects) : k # i /\ contains(rects[k], rects[i])

\* std::remove_if shifting the kept elements forward in place
RECURSIVE RemoveIfLoop(_, _, _)
RemoveIfLoop(rects, i, result) ==
    IF i > Len(rects) THEN SubSeq(rects, 1, result - 1)
    ELSE IF NonMaximal(rects, i) THEN RemoveIfLoop(rects, i + 1, result)
    ELSE RemoveIfLoop([rects EXCEPT ![result] = rects[i]], i + 1, result + 1)

\* the part of eliminateNonMaximal after the sort
RemoveNonMaximal(sorted) ==
    IF Len(sorted) < 2 THEN sorted ELSE RemoveIfLoop(sorted, 1, 1)

\* variant of eliminateNonMaximal that sorts and removes nothing
eliminateNonMaximalSortOnly(fr) == SortRectsByArea(fr)

eliminateNonMaximal(fr) == RemoveNonMaximal(SortRectsByArea(fr))

\* ---------------------------------------------------- boundingBoxPacking
\* the bookkeeping of a placement: free rectangles split and pruned, the
\* piece appended, its index entry inserted
PlaceAt(b, placedPiece) ==
    BinRec(Append(b.placedPieces, placedPiece),
           eliminateNonMaximal(
               computeFreeRectangles(b.freeRectangles, getBoundingBox2D(placedPiece))),
           RTreeInsert(b.placedPiecesRTree,
                       RTreeValue(getBoundingBox2D(placedPiece), Len(b.placedPieces) + 1)))

\* the piece turned by the placement's angle and put at the min corner of
\* the placement's free rectangle
Positioned(b, piece, placement) ==
    placeInPosition(IF placement.rotationAngle > 0
                    THEN rotate(piece, placement.rotationAngle) ELSE piece,
                    getX(b.freeRectangles[placement.rectIndex + 1]),
                    getY(b.freeRectangles[placement.rectIndex + 1]))

\* variant of bbpStep that hands back the rotated and positioned copy of a
\* piece whose slot collides
bbpStepReturnsMoved(acc, piece) ==
    LET rejected == [bin |-> acc.bin, notPlaced |-> Append(acc.notPlaced, piece)]
        tryAt(placedPiece) ==
            IF ~isCollision(acc.bin, placedPiece, 0)
            THEN [bin |-> PlaceAt(acc.bin, placedPiece), notPlaced |-> acc.notPlaced]
            ELSE [bin |-> acc.bin, notPlaced |-> Append(acc.notPlaced, placedPiece)]
        place(placement) ==
            IF placement.rectIndex # -1
            THEN tryAt(Positioned(acc.bin, piece, placement))
            ELSE rejected
    IN place(findWhereToPlace(acc.bin, piece))

\* variant of bbpStep that forgets a piece it cannot place
bbpStepForgetful(acc, piece) ==
    LET tryAt(placedPiece) ==
            IF ~isCollision(acc.bin, placedPiece, 0)
            THEN [bin |-> PlaceAt(acc.bin, placedPiece), notPlaced |-> acc.notPlaced]
            ELSE acc
        place(placement) ==
            IF placement.rectIndex # -1
            THEN tryAt(Positioned(acc.bin, piece, placement))
            ELSE acc
    IN place(findWhereToPlace(acc.bin, piece))

\* one iteration of the loop over the sorted pieces; acc = [bin, notPlaced]
bbpStep(acc, piece) ==
    LET rejected == [bin |-> acc.bin, notPlaced |-> Append(acc.notPlaced, piece)]
        tryAt(placedPiece) ==
            IF ~isCollision(acc.bin, placedPiece, 0)
            THEN [bin |-> PlaceAt(acc.bin, placedPiece), notPlaced |-> acc.notPlaced]
            ELSE rejected
        place(placement) ==
            IF placement.rectIndex # -1
            THEN tryAt(Positioned(acc.bin, piece, placement))
            ELSE rejected
    IN place(findWhereToPlace(acc.bin, piece))

RECURSIVE bbpLoop(_, _)
bbpLoop(acc, pieces) ==
    IF pieces = <<>> THEN acc
    ELSE bbpLoop(bbpStep(acc, Head(pieces)), Tail(pieces))

boundingBoxPacking(b, piecesToPlace) ==
    bbpLoop([bin |-> b, notPlaced |-> <<>>], SortPiecesByArea(piecesToPlace))

\* ------------------------------------------------- compressPiece / compress
\* variant of tryMove that does not put the index entry back when the step
\* is rejected
tryMoveNoRestore(b, pieceIndex, vx, vy) ==
    LET decide(pieceToMove, rt1) ==
            IF /\ isInside(pieceToMove, dimension)
               /\ ~isCollision(BinRec([b.placedPieces EXCEPT ![pieceIndex] = pieceToMove],
                                      b.freeRectangles, rt1),
                               pieceToMove, pieceIndex)
            THEN [bin |-> BinRec([b.placedPieces EXCEPT ![pieceIndex] = pieceToMove],
                                 b.freeRectangles,
                                 RTreeInsert(rt1, RTreeValue(getBoundingBox2D(pieceToMove),
                                                             pieceIndex))),
                  moved |-> TRUE]
            ELSE [bin |-> BinRec(b.placedPieces, b.freeRectangles, rt1), moved |-> FALSE]
    IN decide(move(b.placedPieces[pieceIndex], vx, vy),
              RTreeRemove(b.placedPiecesRTree,
                          RTreeValue(getBoundingBox2D(b.placedPieces[pieceIndex]),
                                     pieceIndex)))

\* one attempted translation of placedPieces[pieceIndex] by (vx, vy), in
\* model units: take the entry out of the R-tree, move the piece in place,
\* keep the move if the piece is inside the bin and collides with nothing,
\* otherwise put the saved copy back
tryMove(b, pieceIndex, vx, vy) ==
    LET decide(pieceToMove, rt1) ==
            IF /\ isInside(pieceToMove, dimension)
               /\ ~isCollision(BinRec([b.placedPieces EXCEPT ![pieceIndex] = pieceToMove],
                                      b.freeRectangles, rt1),
                               pieceToMove, pieceIndex)
            THEN [bin |-> BinRec([b.placedPieces EXCEPT ![pieceIndex] = pieceToMove],
                                 b.freeRectangles,
                                 RTreeInsert(rt1, RTreeValue(getBoundingBox2D(pieceToMove),
                                                             pieceIndex))),
                  moved |-> TRUE]
            ELSE [bin |-> BinRec(b.placedPieces, b.freeRectangles,
                                 RTreeInsert(rt1,
                                             RTreeValue(getBoundingBox2D(b.placedPieces[pieceIndex]),
                                                        pieceIndex))),
                  moved |-> FALSE]
    IN decide(move(b.placedPieces[pieceIndex], vx, vy),
              RTreeRemove(b.placedPiecesRTree,
                          RTreeValue(getBoundingBox2D(b.placedPieces[pieceIndex]),
                                     pieceIndex)))

\* variant of compressLoop whose steps are accepted without the collision
\* check
RECURSIVE compressLoopUnchecked(_, _, _, _, _)
compressLoopUnchecked(b, pieceIndex, vx, vy, total) ==
    LET step(c, dx, dy) ==
            LET accept(pieceToMove) ==
                    IF isInside(pieceToMove, dimension)
                    THEN [bin |-> BinRec([c.placedPieces EXCEPT ![pieceIndex] = pieceToMove],
                                         c.freeRectangles,
                                         RTreeInsert(
                                             RTreeRemove(c.placedPiecesRTree,
                                                 RTreeValue(getBoundingBox2D(
                                                     c.placedPieces[pieceIndex]), pieceIndex)),
                                             RTreeValue(getBoundingBox2D(pieceToMove),
                                                        pieceIndex))),
                          moved |-> TRUE]
                    ELSE [bin |-> c, moved |-> FALSE]
            IN accept(move(c.placedPieces[pieceIndex], dx, dy))
        count(r) == IF r.moved THEN 1 ELSE 0
        afterX(sy, sx) ==
            IF sy.moved \/ sx.moved
            THEN compressLoopUnchecked(sx.bin, pieceIndex, vx, vy,
                                       total + count(sy) + count(sx))
            ELSE [bin |-> sx.bin, moved |-> total > 0]
        afterY(sy) ==
            afterX(sy, IF vx # 0 THEN step(sy.bin, vx * Unit, 0)
                       ELSE [bin |-> sy.bin, moved |-> FALSE])
    IN afterY(IF vy # 0 THEN step(b, 0, vy * Unit) ELSE [bin |-> b, moved |-> FALSE])

\* the while (moved_in_iter) loop: a step along y, then a step along x; vx
\* and vy are the components of the MVector in program units; the result
\* carries total_moves > 0
RECURSIVE compressLoop(_, _, _, _, _)
compressLoop(b, pieceIndex, vx, vy, total) ==
    LET count(r) == IF r.moved THEN 1 ELSE 0
        afterX(sy, sx) ==
            IF sy.moved \/ sx.moved
            THEN compressLoop(sx.bin, pieceIndex, vx, vy, total + count(sy) + count(sx))
            ELSE [bin |-> sx.bin, moved |-> total > 0]
        afterY(sy) ==
            afterX(sy, IF vx # 0 THEN tryMove(sy.bin, pieceIndex, vx * Unit, 0)
                       ELSE [bin |-> sy.bin, moved |-> FALSE])
    IN afterY(IF vy # 0 THEN tryMove(b, pieceIndex, 0, vy * Unit)
              ELSE [bin |-> b, moved |-> FALSE])

compressPiece(b, pieceIndex, vx, vy) ==
    IF vx = 0 /\ vy = 0 THEN [bin |-> b, moved |-> FALSE]
    ELSE compressLoop(b, pieceIndex, vx, vy, 0)

\* one pass of compress over the pieces i..n; the result says whether any
\* piece moved
RECURSIVE compressPass(_, _, _)
compressPass(b, i, movedInPass) ==
    IF i > Len(b.placedPieces) THEN [bin |-> b, moved |-> movedInPass]
    ELSE LET next(r) == compressPass(r.bin, i + 1, movedInPass \/ r.moved)
         IN next(compressPiece(b, i, -1, -1))

\* variant of compressWhile that stops after the first pass
compressWhileOnePass(b) == compressPass(b, 1, FALSE).bin

\* the while (moved_in_pass) loop of compress
RECURSIVE compressWhile(_)
compressWhile(b) ==
    LET again(r) == IF r.moved THEN compressWhile(r.bin) ELSE r.bin
    IN again(compressPass(b, 1, FALSE))

compress(b) == IF b.placedPieces = <<>> THEN b ELSE compressWhile(b)

\* the value moved_in_pass has after the first pass
compressMoved(b) == b.placedPieces # <<>> /\ compressPass(b, 1, FALSE).moved

\* ----------------------------------------------------------- dive, dropPieces
\* a temporary entry for the piece, compression straight down, and the
\* temporary entry taken out again
diveAt(b, tempPiece) ==
    LET tempIndex == Len(b.placedPieces) + 1
        result(b2) ==
            [found |-> TRUE,
             piece |-> b2.placedPieces[tempIndex],
             bin |-> BinRec(SubSeq(b2.placedPieces, 1, tempIndex - 1),
                            b2.freeRectangles,
                            RTreeRemove(b2.placedPiecesRTree,
                                        RTreeValue(getBoundingBox2D(b2.placedPieces[tempIndex]),
                                                   tempIndex)))]
    IN result(compressPiece(BinRec(Append(b.placedPieces, tempPiece), b.freeRectangles,
                                   RTreeInsert(b.placedPiecesRTree,
                                               RTreeValue(getBoundingBox2D(tempPiece),
                                                          tempIndex))),
                            tempIndex, 0, -1).bin)

\* one start position: dive from it unless the piece collides there
diveTry(b, tempPiece) ==
    IF ~isCollision(b, tempPiece, 0) THEN diveAt(b, tempPiece)
    ELSE [found |-> FALSE, piece |-> tempPiece, bin |-> b]

\* diveScan is the for loop over initialX and, after it, the start position
\* against the right border
dive(b, toDive) ==
    LET start(pieceWidth, pieceHeight) ==
            LET dx == pieceWidth \div DIVE_HORIZONTAL_DISPLACEMENT_FACTOR
                RECURSIVE diveScan(_)
                diveScan(initialX) ==
                    LET next(d) ==
                            IF d.found \/ initialX + pieceWidth > getWidth(dimension)
                            THEN d
                            ELSE diveScan(initialX + dx)
                    IN next(diveTry(b, placeInPosition(
                                toDive,
                                IF initialX + pieceWidth <= getWidth(dimension)
                                THEN initialX
                                ELSE getWidth(dimension) - pieceWidth,
                                getHeight(dimension) - pieceHeight)))
            IN IF pieceWidth > getWidth(dimension) \/ pieceHeight > getHeight(dimension)
               THEN [found |-> FALSE, piece |-> toDive, bin |-> b]
               ELSE diveScan(0)
    IN start(getWidth(getBoundingBox2D(toDive)), getHeight(getBoundingBox2D(toDive)))

\* the loop over the angles for one piece
RECURSIVE dropAngles(_, _, _)
dropAngles(b, pieceToTry, a) ==
    IF a > Len(STAGE23_ROTATION_ANGLES) THEN [bin |-> b, wasPlaced |-> FALSE]
    ELSE LET angle == STAGE23_ROTATION_ANGLES[a]
             next(d) ==
                 IF d.found
                 THEN [bin |-> BinRec(Append(d.bin.placedPieces, d.piece),
                                      d.bin.freeRectangles,
                                      RTreeInsert(d.bin.placedPiecesRTree,
                                                  RTreeValue(getBoundingBox2D(d.piece),
                                                             Len(d.bin.placedPieces) + 1))),
                       wasPlaced |-> TRUE]
                 ELSE dropAngles(d.bin, pieceToTry, a + 1)
         IN next(dive(b, IF angle > 0 THEN rotate(pieceToTry, angle) ELSE pieceToTry))

RECURSIVE dropLoop(_, _)
dropLoop(acc, pieces) ==
    IF pieces = <<>> THEN acc
    ELSE LET next(r) ==
                 dropLoop([bin |-> r.bin,
                           notPlaced |-> IF r.wasPlaced THEN acc.notPlaced
                                         ELSE Append(acc.notPlaced, Head(pieces))],
                          Tail(pieces))
         IN next(dropAngles(acc.bin, Head(pieces), 1))

dropPieces(b, piecesToDrop) == dropLoop([bin |-> b, notPlaced |-> <<>>], piecesToDrop)

\* ------------------------------------------------------- placeInFreeZones
\* the angles for one (piece, free rectangle) pair
RECURSIVE pfzAngles(_, _, _, _)
pfzAngles(b, piece, freeRect, a) ==
    IF a > Len(STAGE23_ROTATION_ANGLES) THEN [bin |-> b, wasPlaced |-> FALSE]
    ELSE LET angle == STAGE23_ROTATION_ANGLES[a]
             decide(candidateBB, candidate) ==
                 IF fits(candidateBB, freeRect) /\ ~isCollision(b, candidate, 0)
                 THEN [bin |-> PlaceAt(b, candidate), wasPlaced |-> TRUE]
                 ELSE pfzAngles(b, piece, freeRect, a + 1)
             at(turned) ==
                 decide(getBoundingBox2D(turned),
                        placeInPosition(turned, getX(freeRect), getY(freeRect)))
         IN at(IF angle > 0 THEN rotate(piece, angle) ELSE piece)

RECURSIVE pfzRects(_, _, _)
pfzRects(b, piece, rects) ==
    IF rects = <<>> THEN [bin |-> b, wasPlaced |-> FALSE]
    ELSE LET next(r) == IF r.wasPlaced THEN r ELSE pfzRects(b, piece, Tail(rects))
         IN next(pfzAngles(b, piece, Head(rects), 1))

\* sortedFreeRects is the copy taken before the loop over the pieces
RECURSIVE pfzLoop(_, _, _)
pfzLoop(acc, pieces, sortedFreeRects) ==
    IF pieces = <<>> THEN acc
    ELSE LET next(r) ==
                 pfzLoop([bin |-> r.bin,
                          notPlaced |-> IF r.wasPlaced THEN acc.notPlaced
                                        ELSE Append(acc.notPlaced, Head(pieces))],
                         Tail(pieces), sortedFreeRects)
         IN next(pfzRects(acc.bin, Head(pieces), sortedFreeRects))

placeInFreeZones(b, piecesToPlace) ==
    pfzLoop([bin |-> b, notPlaced |-> <<>>], SortPiecesByArea(piecesToPlace),
            SortRectsByArea(b.freeRectangles))

\* ------------------------------------------------- sweep, moveAndReplace
\* variant of sweepOk that leaves out the check against the other pieces
sweepOkContainerOnly(b, container, inside, ignoredPieceIndex) ==
    ~intersection(inside, container)

\* the position is clear of the container and of every other piece
sweepOk(b, container, inside, ignoredPieceIndex) ==
    ~intersection(inside, container) /\ ~isCollision(b, inside, ignoredPieceIndex)

\* the position handed in is returned as it is when it is free
sweepFirst(b, container, inside, ignoredPieceIndex) ==
    sweepOk(b, container, inside, ignoredPieceIndex)

\* the two nested for loops visit the grid positions row by row, the inner
\* loop over x and the outer one over y; cell k is the k-th position visited
\* and the first cell that is free is returned
sweep(b, container, inside, ignoredPieceIndex) ==
    LET grid(containerBB, insideBB_orig) ==
            LET dx == getWidth(insideBB_orig) \div DX_SWEEP_FACTOR
                dy == getHeight(insideBB_orig) \div DY_SWEEP_FACTOR
                steps(room, d) == IF room < 0 THEN 0 ELSE room \div d + 1
                visit(columns, rows) ==
                    LET at(k) == placeInPosition(inside,
                                                 getX(containerBB) + (k % columns) * dx,
                                                 getY(containerBB) + (k \div columns) * dy)
                        first(free) ==
                            IF free = {} THEN [found |-> FALSE, piece |-> inside]
                            ELSE [found |-> TRUE,
                                  piece |-> at(CHOOSE k \in free : \A j \in free : k <= j)]
                        clear(placed) ==
                            isInside(placed, dimension)
                            /\ sweepOk(b, container, placed, ignoredPieceIndex)
                    IN first({k \in 0..(columns * rows - 1) : clear(at(k))})
            IN visit(steps(getWidth(containerBB) - getWidth(insideBB_orig), dx),
                     steps(getHeight(containerBB) - getHeight(insideBB_orig), dy))
    IN IF sweepFirst(b, container, inside, ignoredPieceIndex)
       THEN [found |-> TRUE, piece |-> inside]
       ELSE grid(getBoundingBox2D(container), getBoundingBox2D(inside))

\* what moveAndReplace does with a swept position for piece i: the old
\* bounding box goes back to the free rectangles, the piece is overwritten
\* and compressed, the free rectangles are split by the swept bounding box
applySwept(b, i, swept) ==
    LET finish(b2) ==
            BinRec(b2.placedPieces,
                   eliminateNonMaximal(
                       computeFreeRectangles(b2.freeRectangles, getBoundingBox2D(swept))),
                   b2.placedPiecesRTree)
    IN finish(compressPiece(BinRec([b.placedPieces EXCEPT ![i] = swept],
                                   Append(b.freeRectangles,
                                          getBoundingBox2D(b.placedPieces[i])),
                                   b.placedPiecesRTree),
                            i, -1, -1).bin)

\* the angles for one (piece i, container j) pair
RECURSIVE marAngles(_, _, _, _)
marAngles(b, i, j, a) ==
    IF a > Len(STAGE23_ROTATION_ANGLES) THEN [bin |-> b, moved |-> FALSE]
    ELSE LET angle == STAGE23_ROTATION_ANGLES[a]
             next(swept) ==
                 IF swept.found
                 THEN [bin |-> applySwept(b, i, swept.piece), moved |-> TRUE]
                 ELSE marAngles(b, i, j, a + 1)
             candidate(contBB) ==
                 placeInPosition(IF angle > 0 THEN rotate(b.placedPieces[i], angle)
                                 ELSE b.placedPieces[i],
                                 getX(contBB), getY(contBB))
         IN next(sweep(b, b.placedPieces[j],
                       candidate(getBoundingBox2D(b.placedPieces[j])), i))

\* the scan of the earlier pieces j < i
RECURSIVE marContainers(_, _, _)
marContainers(b, i, j) ==
    IF j >= i THEN [bin |-> b, moved |-> FALSE]
    ELSE IF getFreeArea(b.placedPieces[j]) > getArea(b.placedPieces[i])
    THEN LET next(r) == IF r.moved THEN r ELSE marContainers(b, i, j + 1)
         IN next(marAngles(b, i, j, 1))
    ELSE marContainers(b, i, j + 1)

\* the for loop, i from the last piece down.  The result lists what the loop
\* has done at each index where it can stop: element indexLimit + 1 is what
\* the call returns for the code's 0-based indexLimit.
RECURSIVE marLoop(_, _, _)
marLoop(b, i, movement) ==
    IF i < 1 THEN <<[bin |-> b, moved |-> movement]>>
    ELSE LET next(r) ==
                 Append(marLoop(r.bin, i - 1, movement \/ r.moved),
                        [bin |-> b, moved |-> movement])
         IN next(marContainers(b, i, 1))

moveAndReplace(b, indexLimit) ==
    marLoop(b, Len(b.placedPieces), FALSE)[indexLimit + 1]

\* -------------------------------------------- recomputeAllFreeRectangles
RECURSIVE subtractAll(_, _)
subtractAll(fr, pieces) ==
    IF pieces = <<>> THEN fr
    ELSE subtractAll(computeFreeRectangles(fr, getBoundingBox2D(Head(pieces))),
                     Tail(pieces))

recomputeAllFreeRectangles(b) ==
    BinRec(b.placedPieces,
           eliminateNonMaximal(subtractAll(<<dimension>>, b.placedPieces)),
           b.placedPiecesRTree)

\* ------------------------------------ look-ahead packing (stage 1 of pack)
RECURSIVE SumPieceAreas(_)
SumPieceAreas(pp) == IF pp = <<>> THEN 0 ELSE getArea(Head(pp)) + SumPieceAreas(Tail(pp))

getOccupiedArea(b) == SumPieceAreas(b.placedPieces)

\* occupied area over bin area; every bin has the same area, so the ratios
\* compare as their numerators do
evaluateBinUtilization(b) == getOccupiedArea(b)

tryPlacePiece(b, piece) ==
    LET failure == [success |-> FALSE, placedPiece |-> piece, newState |-> b]
        tryAt(placedPiece) ==
            IF ~isCollision(b, placedPiece, 0)
            THEN [success |-> TRUE, placedPiece |-> placedPiece,
                  newState |-> PlaceAt(b, placedPiece)]
            ELSE failure
        place(placement) ==
            IF placement.rectIndex # -1 THEN tryAt(Positioned(b, piece, placement))
            ELSE failure
    IN place(findWhereToPlace(b, piece))

Reverse(s) == [k \in 1..Len(s) |-> s[Len(s) + 1 - k]]

\* std::next_permutation under the comparator a.getArea() > b.getArea()
nextPermutation(s) ==
    LET n == Len(s)
        before(a, b) == getArea(a) > getArea(b)
        permute(i, j) ==
            [seq |-> SubSeq(s, 1, i - 1) \o <<s[j]>>
                     \o Reverse([k \in 1..(n - i) |->
                                    IF i + k = j THEN s[i] ELSE s[i + k]]),
             more |-> TRUE]
        from(i) == permute(i, MaxOf({k \in (i + 1)..n : before(s[i], s[k])}))
        pivots(Is) == IF Is = {} THEN [seq |-> Reverse(s), more |-> FALSE]
                      ELSE from(MaxOf(Is))
    IN pivots({i \in 1..(n - 1) : before(s[i], s[i + 1])})

\* the for loop that places the look-ahead pieces in the order given
RECURSIVE laTryAll(_, _, _)
laTryAll(b, pieces, placedInThisOrder) ==
    IF pieces = <<>>
    THEN [allPlaced |-> TRUE, state |-> b, placedInThisOrder |-> placedInThisOrder]
    ELSE LET next(result) ==
                 IF result.success
                 THEN laTryAll(result.newState, Tail(pieces),
                               Append(placedInThisOrder, result.placedPiece))
                 ELSE [allPlaced |-> FALSE, state |-> b,
                       placedInThisOrder |-> placedInThisOrder]
         IN next(tryPlacePiece(b, Head(pieces)))

\* the comparison of one complete order with the best one so far
BetterOrder(best, r, currentUtilization) ==
    r.allPlaced /\ currentUtilization > best.bestUtilization

\* what the loop records for an order that is better
TakeOrder(r, currentUtilization) ==
    [bestUtilization |-> currentUtilization,
     bestPlacementOrder |-> r.placedInThisOrder,
     bestState |-> r.state]

NoOrder(b) ==
    [bestUtilization |-> evaluateBinUtilization(b), bestPlacementOrder |-> <<>>,
     bestState |-> b]

\* the do ... while (next_permutation) loop
RECURSIVE laPermutations(_, _, _)
laPermutations(originalState, lookAheadPieces, best) ==
    LET continue(best1, np) ==
            IF np.more THEN laPermutations(originalState, np.seq, best1) ELSE best1
        judge(r) ==
            IF BetterOrder(best, r, evaluateBinUtilization(r.state))
            THEN continue(TakeOrder(r, evaluateBinUtilization(r.state)),
                          nextPermutation(lookAheadPieces))
            ELSE continue(best, nextPermutation(lookAheadPieces))
    IN judge(laTryAll(originalState, lookAheadPieces, <<>>))

\* erase of the first list element whose area equals the placed piece's
RECURSIVE eraseByArea(_, _)
eraseByArea(list, placedPiece) ==
    IF list = <<>> THEN <<>>
    ELSE IF getArea(Head(list)) = getArea(placedPiece) THEN Tail(list)
    ELSE <<Head(list)>> \o eraseByArea(Tail(list), placedPiece)

RECURSIVE eraseAllByArea(_, _)
eraseAllByArea(list, placedOrder) ==
    IF placedOrder = <<>> THEN list
    ELSE eraseAllByArea(eraseByArea(list, Head(placedOrder)), Tail(placedOrder))

FirstN(s, n) == SubSeq(s, 1, Min2(n, Len(s)))

\* the while (!piecesToPlace.empty()) loop
RECURSIVE laWhile(_, _, _, _)
laWhile(b, piecesToPlace, notPlaced, lookAheadDepth) ==
    IF piecesToPlace = <<>> THEN [bin |-> b, notPlaced |-> notPlaced]
    ELSE LET greedy(g) ==
                 laWhile(g.bin, Tail(piecesToPlace), g.notPlaced, lookAheadDepth)
             apply(best) ==
                 IF best.bestPlacementOrder # <<>>
                 THEN laWhile(best.bestState,
                              eraseAllByArea(piecesToPlace, best.bestPlacementOrder),
                              notPlaced, lookAheadDepth)
                 ELSE greedy(bbpStep([bin |-> b, notPlaced |-> notPlaced],
                                     Head(piecesToPlace)))
         IN apply(laPermutations(b,
                                 SortPiecesByArea(FirstN(piecesToPlace, lookAheadDepth)),
                                 NoOrder(b)))

boundingBoxPackingWithLookAhead(b, piecesToPlace, lookAheadDepth) ==
    laWhile(b, SortPiecesByArea(piecesToPlace), <<>>, lookAheadDepth)

\* ------------------------------------------ placeInFreeZonesWithLookAhead
RECURSIVE pfzTryAll(_, _, _)
pfzTryAll(b, pieces, placedInThisOrder) ==
    IF pieces = <<>>
    THEN [allPlaced |-> TRUE, state |-> b, placedInThisOrder |-> placedInThisOrder]
    ELSE LET next(result) ==
                 IF result.notPlaced = <<>>
                 THEN pfzTryAll(result.bin, Tail(pieces),
                                Append(placedInThisOrder, Head(pieces)))
                 ELSE [allPlaced |-> FALSE, state |-> b,
                       placedInThisOrder |-> placedInThisOrder]
         IN next(placeInFreeZones(b, <<Head(pieces)>>))

RECURSIVE pfzPermutations(_, _, _)
pfzPermutations(originalState, lookAheadPieces, best) ==
    LET continue(best1, np) ==
            IF np.more THEN pfzPermutations(originalState, np.seq, best1) ELSE best1
        judge(r) ==
            IF BetterOrder(best, r, evaluateBinUtilization(r.state))
            THEN continue(TakeOrder(r, evaluateBinUtilization(r.state)),
                          nextPermutation(lookAheadPieces))
            ELSE continue(best, nextPermutation(lookAheadPieces))
    IN judge(pfzTryAll(originalState, lookAheadPieces, <<>>))

RECURSIVE pfzLaWhile(_, _, _, _)
pfzLaWhile(b, piecesToPlace, notPlaced, lookAheadDepth) ==
    IF piecesToPlace = <<>> THEN [bin |-> b, notPlaced |-> notPlaced]
    ELSE LET greedy(g) ==
                 pfzLaWhile(g.bin, Tail(piecesToPlace), notPlaced \o g.notPlaced,
                            lookAheadDepth)
             apply(best) ==
                 IF best.bestPlacementOrder # <<>>
                 THEN pfzLaWhile(best.bestState,
                                 eraseAllByArea(piecesToPlace, best.bestPlacementOrder),
                                 notPlaced, lookAheadDepth)
                 ELSE greedy(placeInFreeZones(b, <<Head(piecesToPlace)>>))
         IN apply(pfzPermutations(b,
                                  SortPiecesByArea(FirstN(piecesToPlace, lookAheadDepth)),
                                  NoOrder(b)))

placeInFreeZonesWithLookAhead(b, piecesToPlace, lookAheadDepth) ==
    pfzLaWhile(b, SortPiecesByArea(piecesToPlace), <<>>, lookAheadDepth)

\* ------------------------------------------------------ BinPacking::pack
\* the look-ahead depth pack passes to both look-ahead operations
LookAheadDepth == 5

EmptyBin == BinRec(<<>>, <<dimension>>, EmptyBag)

\* stage 3: compress, drop what is left, compress
packStage3(s2) ==
    LET last(d) == [bin |-> compress(d.bin), notPlaced |-> d.notPlaced]
        drop(c1) ==
            IF s2.notPlaced # <<>> THEN dropPieces(c1, s2.notPlaced)
            ELSE [bin |-> c1, notPlaced |-> s2.notPlaced]
        rest(c1) == last(drop(c1))
    IN rest(compress(s2.bin))

\* stage 4, the loop over the bins for one piece
RECURSIVE globalBins(_, _, _, _)
globalBins(allBins, k, piece, recompute) ==
    IF k > Len(allBins) THEN [bins |-> allBins, wasPlaced |-> FALSE]
    ELSE LET next(r) ==
                 IF r.notPlaced = <<>>
                 THEN [bins |-> [allBins EXCEPT ![k] = compress(r.bin)],
                       wasPlaced |-> TRUE]
                 ELSE globalBins([allBins EXCEPT ![k] = r.bin], k + 1, piece, recompute)
         IN next(placeInFreeZones(IF recompute THEN recomputeAllFreeRectangles(allBins[k])
                                  ELSE allBins[k],
                                  <<piece>>))

\* stage 4, the loop over the remaining pieces
RECURSIVE globalPieces(_, _, _, _)
globalPieces(allBins, pieces, globallyNotPlaced, recompute) ==
    IF pieces = <<>> THEN [bins |-> allBins, toPlace |-> globallyNotPlaced]
    ELSE LET next(r) ==
                 globalPieces(r.bins, Tail(pieces),
                              IF r.wasPlaced THEN globallyNotPlaced
                              ELSE Append(globallyNotPlaced, Head(pieces)),
                              recompute)
         IN next(globalBins(allBins, 1, Head(pieces), recompute))

globalOptimization(allBins, pieces, recompute) ==
    globalPieces(allBins, SortPiecesByArea(pieces), <<>>, recompute)

\* ------------------------------------------------------- input pieces
\* shapes as a caller constructs them, with the bounding box at the origin
RectShape(w, h) == {Rect(0, 0, w, h)}
\* a bar of thickness t along the left side and one along the top
GammaShape(w, h, t) == {Rect(0, 0, t, h), Rect(t, h - t, w, h)}
\* a bar along the bottom and one along the right side
HookShape(w, h, t) == {Rect(0, 0, w, t), Rect(w - t, t, w, h)}
\* a bar along the top and one along the right side
SevenShape(w, h, t) == {Rect(0, h - t, w, h), Rect(w - t, 0, w, h - t)}

Catalogue ==
    { RectShape(Unit, Unit),
      HookShape(Unit, Unit, Unit \div 3),
      GammaShape(2 * Unit, 2 * Unit, Unit \div 3),
      GammaShape(2 * Unit, 3 * Unit, Unit \div 15),
      \* a rectangle exactly as large as the bin
      RectShape(BinW * Unit, BinH * Unit),
      RectShape(Unit, 2 * Unit),
      SevenShape(2 * Unit, 2 * Unit, Unit \div 3),
      \* a bar longer than either side of the bin
      RectShape(Unit, (Max2(BinW, BinH) + 1) * Unit) }


\* the piece lists a caller can hand in: 1..MaxInput new pieces, numbered
\* from nextId on
InputLists(first) ==
    UNION { { [k \in 1..n |-> MArea(f[k], first + k - 1)] : f \in [1..n -> Catalogue] }
            : n \in 1..Min2(MaxInput, MaxPieces - first + 1) }

\* the piece lists pack is called with: up to MaxPack pieces, numbered from 1
PackInputs ==
    UNION { { [k \in 1..n |-> MArea(f[k], k)] : f \in [1..n -> Catalogue] }
            : n \in 0..MaxPack }

\* ------------------------------------------------------------ NFPManager
\* The NFP module is modelled for rectangular pieces with integer corners.
\* A path (PathD) is the set of unit cells it encloses; the empty path is
\* the empty set.  A cell is named by its min-corner.
NfpSide == 5
MaxLookups == 3

NfpContainer == Rect(0, 0, NfpSide, NfpSide)

CellsOf(r) == {c \in (r.x1..(r.x2 - 1)) \X (r.y1..(r.y2 - 1)) : TRUE}

\* the cells around the container, one cell further out on every side
NfpFrame == CellsOf(Rect(-1, -1, NfpSide + 1, NfpSide + 1))

Neighbours(F) ==
    UNION {{<<d[1] + 1, d[2]>>, <<d[1] - 1, d[2]>>, <<d[1], d[2] + 1>>, <<d[1], d[2] - 1>>} : d \in F}

\* the cells of S connected to seen, whose cells added last are frontier
RECURSIVE Flood(_, _, _)
Flood(seen, frontier, S) ==
    LET step(new) == IF new = {} THEN seen ELSE Flood(seen \cup new, new, S)
    IN step((Neighbours(frontier) \cap S) \ seen)

\* the connected parts of S
RECURSIVE Components(_)
Components(S) ==
    IF S = {} THEN {}
    ELSE LET rest(C) == {C} \cup Components(S \ C)
         IN rest(Flood({CHOOSE c \in S : TRUE}, {CHOOSE c \in S : TRUE}, S))

\* the cells a component's outer ring encloses without belonging to it
HoleCells(C) == (NfpFrame \ C) \ Flood({<<-1, -1>>}, {<<-1, -1>>}, NfpFrame \ C)

\* Clipper2 Difference(PathsD{region}, PathsD{nfp}, NonZero): the solution
\* is a flat list of closed paths, the outer ring of every connected part
\* and, as paths of their own, the rings of its holes
Difference(region, nfp) ==
    LET rings(parts) ==
            {C \cup HoleCells(C) : C \in parts}
            \cup UNION {Components(HoleCells(C)) : C \in parts}
    IN rings(Components(region \ nfp))

\* PointInPolygon(position, region) != IsOutside: the point lies in the
\* closed polygon, so it is a corner of one of its cells
PointInPolygon(position, region) ==
    \E c \in region :
        /\ c[1] \in {position[1] - 1, position[1]}
        /\ c[2] \in {position[2] - 1, position[2]}

\* std::abs(Area(path))
PathArea(path) == Cardinality(path)

\* the bbox width, height, area and rotation and the vertices normalised to
\* the origin, which for a rectangle the width and the height determine
generatePieceHash(piece) ==
    <<getWidth(getBoundingBox2D(piece)), getHeight(getBoundingBox2D(piece)),
      getArea(piece), piece.rotation>>

\* the Minkowski sum of B, where it stands, and the reflected normalised A;
\* for rectangles the fallback computes the same rectangle
computeNFP(pieceA, pieceB) ==
    CellsOf(Rect(getX(getBoundingBox2D(pieceB)) - getWidth(getBoundingBox2D(pieceA)),
                 getY(getBoundingBox2D(pieceB)) - getHeight(getBoundingBox2D(pieceA)),
                 getMaxX(getBoundingBox2D(pieceB)),
                 getMaxY(getBoundingBox2D(pieceB))))

computeIFP(piece, containerBounds) ==
    LET ifpRect == Rect(getX(containerBounds), getY(containerBounds),
                        getMaxX(containerBounds) - getWidth(getBoundingBox2D(piece)),
                        getMaxY(containerBounds) - getHeight(getBoundingBox2D(piece)))
    IN IF getWidth(ifpRect) <= 0 \/ getHeight(ifpRect) <= 0 THEN {} ELSE CellsOf(ifpRect)

NewNFPManager == [nfpCache |-> <<>>, cacheHits |-> 0, cacheMisses |-> 0]

\* variant of getCachedNFP that does not count a hit
getCachedNFPUncounted(m, pieceA, pieceB) ==
    LET key == <<generatePieceHash(pieceA), generatePieceHash(pieceB)>>
    IN IF key \in DOMAIN m.nfpCache
       THEN [nfp |-> m.nfpCache[key], manager |-> m]
       ELSE [nfp |-> computeNFP(pieceA, pieceB),
             manager |-> [m EXCEPT !.cacheMisses = @ + 1,
                                   !.nfpCache = (key :> computeNFP(pieceA, pieceB)) @@ @]]

\* the NFP returned and the manager after the call
getCachedNFP(m, pieceA, pieceB) ==
    LET key == <<generatePieceHash(pieceA), generatePieceHash(pieceB)>>
    IN IF key \in DOMAIN m.nfpCache
       THEN [nfp |-> m.nfpCache[key], manager |-> [m EXCEPT !.cacheHits = @ + 1]]
       ELSE [nfp |-> computeNFP(pieceA, pieceB),
             manager |-> [m EXCEPT !.cacheMisses = @ + 1,
                                   !.nfpCache = (key :> computeNFP(pieceA, pieceB)) @@ @]]

\* the loop over the obstacles of the Clipper2 build; acc = [regions, manager]
RECURSIVE subtractNFPs(_, _, _)
subtractNFPs(acc, piece, obstacles) ==
    IF obstacles = <<>> THEN acc
    ELSE LET subtract(c) ==
                 [regions |-> IF c.nfp # {}
                              THEN UNION {Difference(region, c.nfp) : region \in acc.regions}
                              ELSE acc.regions,
                  manager |-> c.manager]
         IN subtractNFPs(subtract(getCachedNFP(acc.manager, piece, Head(obstacles))),
                         piece, Tail(obstacles))

\* validRegions is modelled as the set of its paths
getValidPlacementRegions(build, m, piece, obstacles, containerBounds) ==
    IF build
    THEN subtractNFPs([regions |-> {computeIFP(piece, containerBounds)}, manager |-> m],
                      piece, obstacles)
    ELSE [regions |-> {computeIFP(piece, containerBounds)}, manager |-> m]

\* the bounding box of the piece at the tested position
TestBBox(piece, position) ==
    Rect(position[1], position[2],
         position[1] + getWidth(getBoundingBox2D(piece)),
         position[2] + getHeight(getBoundingBox2D(piece)))

isValidPlacement(build, m, piece, position, obstacles, containerBounds) ==
    IF build
    THEN LET answer(r) ==
                 [valid |-> \E region \in r.regions : PointInPolygon(position, region),
                  manager |-> r.manager]
         IN answer(getValidPlacementRegions(build, m, piece, obstacles, containerBounds))
    ELSE [valid |-> /\ contains(containerBounds, TestBBox(piece, position))
                    /\ \A k \in 1..Len(obstacles) :
                          ~intersects(TestBBox(piece, position), getBoundingBox2D(obstacles[k])),
          manager |-> m]

\* the vertex of a path with the lowest y and, among those, the lowest x
bottomLeft(path) ==
    CHOOSE c \in path : \A d \in path : c[2] < d[2] \/ (c[2] = d[2] /\ c[1] <= d[1])

\* the positions findBestPlacement can return: std::max_element takes the
\* first of the paths of largest area (of most vertices in the fallback,
\* where there is one path), in the order Clipper2 lists them; "none" is
\* std::nullopt
bestPlacements(regions) ==
    IF regions = {} THEN {"none"}
    ELSE {IF maxRegion = {} THEN "none" ELSE bottomLeft(maxRegion) :
            maxRegion \in {r \in regions : \A q \in regions : PathArea(q) <= PathArea(r)}}

NoCall == [op |-> "none"]
NoHistory == [lookups |-> 0, keys |-> {}]

\* ------------------------------------------------------ Utils::loadPieces
\* A file is [binWidth, binHeight, numPieces, lines]: the two header lines
\* and the lines after them.  A line is the sequence of its
\* whitespace-separated tokens; a token is the hole mark "@" or a point, the
\* pair of numbers that split and std::stod make of "x,y".  Polygons are
\* axis-aligned rectangles given by their corners, holes are one rectangle.
MaxLines == 4

AtToken == [text |-> "@", x |-> 0, y |-> 0]
PointToken(x, y) == [text |-> "x,y", x |-> x, y |-> y]

\* the loop that parses the tokens of a piece line, dropping a point that
\* uniquePoints already holds
RECURSIVE uniquePointsOf(_, _)
uniquePointsOf(tokens, points) ==
    IF tokens = <<>> THEN points
    ELSE uniquePointsOf(Tail(tokens),
                        IF \E k \in 1..Len(points) : points[k] = Head(tokens)
                        THEN points ELSE Append(points, Head(tokens)))

\* bg::assign_points and bg::correct on the corners of a rectangle
PolygonOf(points) ==
    {Rect(-MaxOf({-points[k].x : k \in 1..Len(points)}),
          -MaxOf({-points[k].y : k \in 1..Len(points)}),
          MaxOf({points[k].x : k \in 1..Len(points)}),
          MaxOf({points[k].y : k \in 1..Len(points)}))}

\* what is left of the box r outside the box h, in boxes with disjoint
\* interiors
BoxMinus(r, h) ==
    IF ~(h.x1 < r.x2 /\ r.x1 < h.x2 /\ h.y1 < r.y2 /\ r.y1 < h.y2) THEN {r}
    ELSE (IF h.y1 > r.y1 THEN {Rect(r.x1, r.y1, r.x2, h.y1)} ELSE {})
         \cup (IF h.y2 < r.y2 THEN {Rect(r.x1, h.y2, r.x2, r.y2)} ELSE {})
         \cup (IF h.x1 > r.x1
               THEN {Rect(r.x1, Max2(r.y1, h.y1), h.x1, Min2(r.y2, h.y2))} ELSE {})
         \cup (IF h.x2 < r.x2
               THEN {Rect(h.x2, Max2(r.y1, h.y1), r.x2, Min2(r.y2, h.y2))} ELSE {})

\* the constructor MArea(outer, inner): bg::difference of the shapes, the
\* id of outer, rotation 0
MAreaWithHole(outer, inner) ==
    LET made(shape) == [id |-> outer.id, rotation |-> 0, area |-> SumArea(shape),
                        shape |-> shape, bbox |-> Envelope(shape)]
    IN made(UNION {BoxMinus(r, Envelope(inner.shape)) : r \in outer.shape})

NotLoaded == [status |-> "none", pieces |-> <<>>, binDimension |-> Rect(0, 0, 0, 0)]
NullOpt == [status |-> "nullopt", pieces |-> <<>>, binDimension |-> Rect(0, 0, 0, 0)]

\* the while (pieceCount < numPieces && std::getline(file, line)) loop
RECURSIVE loadLoop(_, _, _, _)
loadLoop(lines, numPieces, pieceCount, result) ==
    IF ~(pieceCount < numPieces /\ lines # <<>>) THEN result
    ELSE LET line == Head(lines)
             holeIn(outerPiece) ==
                 placeInPosition(
                     MAreaWithHole(outerPiece, MArea(PolygonOf(Tail(line)), -1)), 0, 0)
             piece(points) ==
                 IF points # <<>>
                 THEN loadLoop(Tail(lines), numPieces, pieceCount + 1,
                               [result EXCEPT !.pieces =
                                   Append(@, MArea(PolygonOf(points), pieceCount + 1))])
                 ELSE loadLoop(Tail(lines), numPieces, pieceCount, result)
         IN IF line = <<>> THEN loadLoop(Tail(lines), numPieces, pieceCount, result)
            ELSE IF Head(line) = AtToken
            THEN IF result.pieces = <<>> THEN NullOpt
                 ELSE loadLoop(Tail(lines), numPieces, pieceCount,
                               [result EXCEPT !.pieces[Len(result.pieces)] = holeIn(@)])
            ELSE piece(uniquePointsOf(line, <<>>))

loadPieces(f) ==
    loadLoop(f.lines, f.numPieces, 0,
             [status |-> "ok", pieces |-> <<>>,
              binDimension |-> Rect(0, 0, f.binWidth, f.binHeight)])

\* the lines of the input files
SquareLine(side) ==
    <<PointToken(0, 0), PointToken(side, 0), PointToken(side, side), PointToken(0, side)>>
HoleLine(lo, hi) ==
    <<AtToken, PointToken(lo, lo), PointToken(hi, lo), PointToken(hi, hi), PointToken(lo, hi)>>

FileLines ==
    { SquareLine(10),
      \* a ring closed with its first point
      Append(SquareLine(5), PointToken(0, 0)),
      HoleLine(2, 8), HoleLine(1, 2), HoleLine(3, 4),
      \* a blank line
      <<>> }

IsPieceLine(line) == line # <<>> /\ Head(line) # AtToken
IsHoleLine(line) == line # <<>> /\ Head(line) = AtToken

\* the files: a bin 100 x 50, up to MaxLines lines, and the header's piece
\* count equal to the number of piece lines
Files ==
    UNION { { [binWidth |-> 100, binHeight |-> 50,
               numPieces |-> Cardinality({k \in 1..n : IsPieceLine(l[k])}),
               lines |-> l] : l \in [1..n -> FileLines] }
            : n \in 0..MaxLines }

NoFile == [binWidth |-> 0, binHeight |-> 0, numPieces |-> 0, lines |-> <<>>]

\* ------------------------------------------------------------ the system
ThisBin == BinRec(placedPieces, freeRectangles, placedPiecesRTree)

SetBin(b) ==
    /\ placedPieces' = b.placedPieces
    /\ freeRectangles' = b.freeRectangles
    /\ placedPiecesRTree' = b.placedPiecesRTree

NoRet == [leftover |-> <<>>, movement |-> FALSE]

\* the caller of the bin is between two calls: the bin is new, or the result
\* of the last call has been taken
Ready == pc = "idle" /\ lastOp \in {"Bin", "none"}

\* a new bin, no call of pack, no signal, a new NFPManager
Construct ==
    /\ placedPieces = <<>>
    /\ freeRectangles = <<dimension>>
    /\ placedPiecesRTree = EmptyBag
    /\ nextId = 1
    /\ lastOp = "Bin"
    /\ ret = NoRet
    /\ inputPieces = <<>>
    /\ bins = <<>>
    /\ toPlace = <<>>
    /\ stillNotPlaced = <<>>
    /\ lastLoopUnplacedCount = 0
    /\ pc = "idle"
    /\ g_interrupt_received = FALSE
    /\ nfpManager = NewNFPManager
    /\ nfpCall = NoCall
    /\ nfpHistory = NoHistory

\* the packing code never calls the NFPManager, so one build stands for both
\* no file is loaded
NoLoad == file = NoFile /\ loadResult = NotLoaded

\* the default-constructed MArea
EmptyMArea == [id |-> 0, rotation |-> 0, area |-> 0, shape |-> {}, bbox |-> Rect(0, 0, 0, 0)]

\* no piece is held outside the bins
NoMArea == marea0 = EmptyMArea /\ marea = EmptyMArea /\ mareaCalls = <<>>

\* no call of compress is taken apart
NoCompress ==
    /\ compressPc = "idle" /\ compressIndex = 0
    /\ moved_in_pass = FALSE /\ moved_in_iter = FALSE /\ total_moves = 0

\* no call of findWhereToPlace is taken apart
NoSearch ==
    /\ searchPiece = EmptyMArea /\ useParallel = FALSE
    /\ cpp_lib_parallel_algorithm = FALSE
    /\ bestPlacement = NoPlacement /\ searchPc = "idle" /\ worker = <<>>

\* what the harnesses other than the search leave alone
NoUnit == NoLoad /\ NoMArea /\ NoCompress /\ NoSearch

Init == Construct /\ HAVE_CLIPPER2 = TRUE /\ NoUnit

BoundingBoxPacking ==
    /\ UNCHANGED g_interrupt_received /\ UNCHANGED nfpVars /\ UNCHANGED unitVars
    /\ Ready /\ UNCHANGED packVars
    /\ \E pieces \in InputLists(nextId) :
        LET Return(r) ==
                /\ SetBin(r.bin)
                /\ ret' = [NoRet EXCEPT !.leftover = r.notPlaced]
        IN /\ Return(boundingBoxPacking(ThisBin, pieces))
           /\ nextId' = nextId + Len(pieces)
           /\ lastOp' = "boundingBoxPacking"

BoundingBoxPackingWithLookAhead ==
    /\ UNCHANGED g_interrupt_received /\ UNCHANGED nfpVars /\ UNCHANGED unitVars
    /\ Ready /\ UNCHANGED packVars
    /\ \E pieces \in InputLists(nextId) :
        LET Return(r) ==
                /\ SetBin(r.bin)
                /\ ret' = [NoRet EXCEPT !.leftover = r.notPlaced]
        IN /\ Return(boundingBoxPackingWithLookAhead(ThisBin, pieces, LookAheadDepth))
           /\ nextId' = nextId + Len(pieces)
           /\ lastOp' = "boundingBoxPackingWithLookAhead"

PlaceInFreeZones ==
    /\ UNCHANGED g_interrupt_received /\ UNCHANGED nfpVars /\ UNCHANGED unitVars
    /\ Ready /\ UNCHANGED packVars
    /\ \E pieces \in InputLists(nextId) :
        LET Return(r) ==
                /\ SetBin(r.bin)
                /\ ret' = [NoRet EXCEPT !.leftover = r.notPlaced]
        IN /\ Return(placeInFreeZones(ThisBin, pieces))
           /\ nextId' = nextId + Len(pieces)
           /\ lastOp' = "placeInFreeZones"

DropPieces ==
    /\ UNCHANGED g_interrupt_received /\ UNCHANGED nfpVars /\ UNCHANGED unitVars
    /\ Ready /\ UNCHANGED packVars
    /\ \E pieces \in InputLists(nextId) :
        LET Return(r) ==
                /\ SetBin(r.bin)
                /\ ret' = [NoRet EXCEPT !.leftover = r.notPlaced]
        IN /\ Return(dropPieces(ThisBin, pieces))
           /\ nextId' = nextId + Len(pieces)
           /\ lastOp' = "dropPieces"

MoveAndReplace ==
    /\ UNCHANGED g_interrupt_received /\ UNCHANGED nfpVars /\ UNCHANGED unitVars
    /\ Ready /\ UNCHANGED packVars
    /\ BagCardinality(placedPiecesRTree) - Len(placedPieces) <= MaxStale
    /\ LET Return(r) ==
               /\ SetBin(r.bin)
               /\ ret' = [NoRet EXCEPT !.movement = r.moved]
           \* the loop is run once for all the index limits
           Calls(stops) ==
               \E indexLimit \in 0..Len(placedPieces) : Return(stops[indexLimit + 1])
       IN Calls(marLoop(ThisBin, Len(placedPieces), FALSE))
    /\ lastOp' = "moveAndReplace"
    /\ UNCHANGED nextId

Compress ==
    /\ UNCHANGED g_interrupt_received /\ UNCHANGED nfpVars /\ UNCHANGED unitVars
    /\ Ready /\ UNCHANGED packVars
    /\ SetBin(compress(ThisBin))
    /\ lastOp' = "compress"
    /\ ret' = [NoRet EXCEPT !.movement = compressMoved(ThisBin)]
    /\ UNCHANGED nextId

RecomputeAllFreeRectangles ==
    /\ UNCHANGED g_interrupt_received /\ UNCHANGED nfpVars /\ UNCHANGED unitVars
    /\ Ready /\ UNCHANGED packVars
    /\ SetBin(recomputeAllFreeRectangles(ThisBin))
    /\ lastOp' = "recomputeAllFreeRectangles"
    /\ ret' = NoRet
    /\ UNCHANGED nextId

\* the caller takes the return value of the call that has just returned;
\* what is left of the call is the bin
TakeResult ==
    /\ UNCHANGED g_interrupt_received /\ UNCHANGED nfpVars /\ UNCHANGED unitVars
    /\ pc = "idle" /\ lastOp \notin {"Bin", "none"}
    /\ lastOp' = "none"
    /\ ret' = NoRet
    /\ UNCHANGED <<placedPieces, freeRectangles, placedPiecesRTree, nextId>>
    /\ UNCHANGED packVars

\* SIGINT arrives while pack is running: the handler sets the flag, which
\* nothing resets
signal_handler_func ==
    /\ pc \in {"loop", "stage2", "repack", "stage3", "global", "stage4"}
    /\ ~g_interrupt_received
    /\ g_interrupt_received' = TRUE
    /\ UNCHANGED binVars
    /\ UNCHANGED packVars
    /\ UNCHANGED nfpVars
    /\ UNCHANGED unitVars

\* pack is entered with a list of pieces; the list is sorted in place and
\* copied
PackStart ==
    /\ UNCHANGED g_interrupt_received /\ UNCHANGED nfpVars /\ UNCHANGED unitVars
    /\ pc = "idle" /\ lastOp = "Bin"
    /\ \E input \in PackInputs :
        /\ inputPieces' = SortPiecesByArea(input)
        /\ toPlace' = SortPiecesByArea(input)
    /\ bins' = <<>>
    /\ stillNotPlaced' = <<>>
    /\ lastLoopUnplacedCount' = 0
    /\ pc' = "loop"
    /\ UNCHANGED binVars

\* currentBin is bins.back()
currentBin == bins[Len(bins)]

SetCurrentBin(b) == bins' = [bins EXCEPT ![Len(bins)] = b]

\* the head of the while (!toPlace.empty()) loop: its test, the guard, the
\* new bin and stage 1, which empties toPlace, the vector it is handed by
\* reference
PackOpenBin ==
    /\ UNCHANGED g_interrupt_received /\ UNCHANGED nfpVars /\ UNCHANGED unitVars
    /\ pc = "loop"
    /\ UNCHANGED binVars
    /\ UNCHANGED inputPieces
    /\ IF toPlace = <<>> \/ (lastLoopUnplacedCount > 0 /\ Len(toPlace) = lastLoopUnplacedCount)
       THEN pc' = "stage4" /\ UNCHANGED <<bins, toPlace, stillNotPlaced, lastLoopUnplacedCount>>
       ELSE LET Stage1(r) ==
                    /\ bins' = Append(bins, r.bin)
                    /\ stillNotPlaced' = r.notPlaced
                    /\ pc' = IF Len(r.bin.placedPieces) > 0 THEN "stage2" ELSE "stage3"
            IN /\ lastLoopUnplacedCount' = Len(toPlace)
               /\ Stage1(boundingBoxPackingWithLookAhead(EmptyBin, toPlace, LookAheadDepth))
               /\ toPlace' = <<>>

\* stage 2, the first statement of a round of the while (true) loop;
\* nPiecesBefore is 0 for a bin that was just opened
PackMoveAndReplace ==
    /\ UNCHANGED g_interrupt_received /\ UNCHANGED nfpVars /\ UNCHANGED unitVars
    /\ pc = "stage2"
    /\ UNCHANGED binVars
    /\ SetCurrentBin(moveAndReplace(currentBin, 0).bin)
    /\ pc' = "repack"
    /\ UNCHANGED <<inputPieces, toPlace, stillNotPlaced, lastLoopUnplacedCount>>

\* variant of PackRepack whose round never leaves the loop
PackRepackNoBreak ==
    /\ UNCHANGED g_interrupt_received /\ UNCHANGED nfpVars /\ UNCHANGED unitVars
    /\ pc = "repack"
    /\ UNCHANGED binVars
    /\ LET Round(r) ==
               /\ SetCurrentBin(r.bin)
               /\ stillNotPlaced' = r.notPlaced
               /\ pc' = "stage2"
       IN Round(IF stillNotPlaced # <<>>
                THEN placeInFreeZonesWithLookAhead(currentBin, stillNotPlaced, LookAheadDepth)
                ELSE [bin |-> currentBin, notPlaced |-> stillNotPlaced])
    /\ UNCHANGED <<inputPieces, toPlace, lastLoopUnplacedCount>>

\* stage 2, the rest of the round: the repack and the test that leaves the
\* loop.  moveAndReplace keeps the number of pieces, so the bin still holds
\* piecesInBinBeforeRepack pieces when the action starts.
PackRepack ==
    /\ UNCHANGED g_interrupt_received /\ UNCHANGED nfpVars /\ UNCHANGED unitVars
    /\ pc = "repack"
    /\ UNCHANGED binVars
    /\ LET Round(r) ==
               /\ SetCurrentBin(r.bin)
               /\ stillNotPlaced' = r.notPlaced
               /\ pc' = IF Len(r.bin.placedPieces) = Len(currentBin.placedPieces)
                        THEN "stage3" ELSE "stage2"
       IN Round(IF stillNotPlaced # <<>>
                THEN placeInFreeZonesWithLookAhead(currentBin, stillNotPlaced, LookAheadDepth)
                ELSE [bin |-> currentBin, notPlaced |-> stillNotPlaced])
    /\ UNCHANGED <<inputPieces, toPlace, lastLoopUnplacedCount>>

\* variant of PackStage3 that leaves the loop without popping the empty bin
PackStage3KeepEmpty ==
    /\ UNCHANGED g_interrupt_received /\ UNCHANGED nfpVars /\ UNCHANGED unitVars
    /\ pc = "stage3"
    /\ UNCHANGED binVars
    /\ LET Finish(r) ==
               IF Len(r.bin.placedPieces) = 0
               THEN /\ pc' = "stage4"
                    /\ UNCHANGED <<bins, toPlace, stillNotPlaced>>
               ELSE /\ SetCurrentBin(r.bin)
                    /\ stillNotPlaced' = r.notPlaced
                    /\ toPlace' = r.notPlaced
                    /\ pc' = "global"
       IN Finish(packStage3([bin |-> currentBin, notPlaced |-> stillNotPlaced]))
    /\ UNCHANGED <<inputPieces, lastLoopUnplacedCount>>

\* stage 3 and what follows it: a bin that is still empty is popped and the
\* loop is left, otherwise toPlace takes what was not placed
PackStage3 ==
    /\ UNCHANGED g_interrupt_received /\ UNCHANGED nfpVars /\ UNCHANGED unitVars
    /\ pc = "stage3"
    /\ UNCHANGED binVars
    /\ LET Finish(r) ==
               IF Len(r.bin.placedPieces) = 0
               THEN /\ bins' = SubSeq(bins, 1, Len(bins) - 1)
                    /\ pc' = "stage4"
                    /\ UNCHANGED <<toPlace, stillNotPlaced>>
               ELSE /\ SetCurrentBin(r.bin)
                    /\ stillNotPlaced' = r.notPlaced
                    /\ toPlace' = r.notPlaced
                    /\ pc' = "global"
       IN Finish(packStage3([bin |-> currentBin, notPlaced |-> stillNotPlaced]))
    /\ UNCHANGED <<inputPieces, lastLoopUnplacedCount>>

\* the stage 4 inside the loop, which also recomputes the free rectangles
PackGlobal ==
    /\ UNCHANGED g_interrupt_received /\ UNCHANGED nfpVars /\ UNCHANGED unitVars
    /\ pc = "global"
    /\ UNCHANGED binVars
    /\ LET Assign(g) ==
               /\ bins' = g.bins
               /\ toPlace' = g.toPlace
       IN Assign(IF toPlace # <<>> /\ Len(bins) > 1
                 THEN globalOptimization(bins, toPlace, TRUE)
                 ELSE [bins |-> bins, toPlace |-> toPlace])
    /\ pc' = "loop"
    /\ UNCHANGED <<inputPieces, stillNotPlaced, lastLoopUnplacedCount>>

\* the stage 4 after the loop, and the return
PackReturn ==
    /\ UNCHANGED g_interrupt_received /\ UNCHANGED nfpVars /\ UNCHANGED unitVars
    /\ pc = "stage4"
    /\ UNCHANGED binVars
    /\ LET Assign(g) ==
               /\ bins' = g.bins
               /\ toPlace' = g.toPlace
       IN Assign(IF toPlace # <<>> /\ bins # <<>>
                 THEN globalOptimization(bins, toPlace, FALSE)
                 ELSE [bins |-> bins, toPlace |-> toPlace])
    /\ pc' = "returned"
    /\ UNCHANGED <<inputPieces, stillNotPlaced, lastLoopUnplacedCount>>

Next ==
    \/ BoundingBoxPacking
    \/ BoundingBoxPackingWithLookAhead
    \/ PackStart
    \/ PackOpenBin
    \/ PackMoveAndReplace
    \/ PackRepack
    \/ PackStage3
    \/ PackGlobal
    \/ PackReturn
    \/ PlaceInFreeZones
    \/ DropPieces
    \/ MoveAndReplace
    \/ Compress
    \/ RecomputeAllFreeRectangles
    \/ TakeResult
    \/ signal_handler_func

Spec == Init /\ [][Next]_vars

\* pack is one sequential call: while it is running, control moves on to
\* its next statement
PackRunning == {"loop", "stage2", "repack", "stage3", "global", "stage4"}

PackAdvance ==
    /\ pc \in PackRunning
    /\ pc' \in (PackRunning \cup {"returned"}) \ {pc}

FairSpec == Init /\ [][Next]_vars /\ WF_pc(PackAdvance)

\* ------------------------------------------------------------ the NFPManager on its own
packingVars == <<binVars, packVars, g_interrupt_received>>

\* the pieces a caller asks about; where a piece stands does not matter
NfpPieces ==
    { MArea(RectShape(1, 1), 1),
      MArea(RectShape(2, 2), 1),
      \* wider than the container
      MArea(RectShape(NfpSide + 1, 1), 1) }

\* the obstacles: a unit square at one of two places, and one that covers
\* the container
NfpObstacles ==
    { placeInPosition(MArea(RectShape(1, 1), 2), 2, 2),
      placeInPosition(MArea(RectShape(1, 1), 3), 3, 3),
      MArea(RectShape(NfpSide, NfpSide), 4) }

NfpObstacleLists ==
    {<<>>} \cup {<<o>> : o \in NfpObstacles}
    \cup {<<o1, o2>> : <<o1, o2>> \in {q \in NfpObstacles \X NfpObstacles : q[1] # q[2]}}

NfpPositions == {<<0, 0>>, <<1, 1>>, <<2, 2>>, <<3, 3>>}

\* the lookups of getCachedNFP a call of the Clipper2 build makes, one for
\* every obstacle
Looked(piece, obstacles) ==
    IF HAVE_CLIPPER2
    THEN [lookups |-> nfpHistory.lookups + Len(obstacles),
          keys |-> nfpHistory.keys \cup
                   {<<generatePieceHash(piece), generatePieceHash(obstacles[k])>> :
                        k \in 1..Len(obstacles)}]
    ELSE nfpHistory

CanLook(obstacles) ==
    ~HAVE_CLIPPER2 \/ nfpHistory.lookups + Len(obstacles) <= MaxLookups

NfpInit == Construct /\ HAVE_CLIPPER2 \in BOOLEAN /\ NoUnit

IsValidPlacement ==
    /\ nfpCall.op = "none"
    /\ \E piece \in NfpPieces, position \in NfpPositions, obstacles \in NfpObstacleLists :
        LET Return(r) ==
                /\ nfpManager' = r.manager
                /\ nfpCall' = [op |-> "isValidPlacement", piece |-> piece,
                               position |-> position, obstacles |-> obstacles,
                               valid |-> r.valid]
        IN /\ CanLook(obstacles)
           /\ Return(isValidPlacement(HAVE_CLIPPER2, nfpManager, piece, position,
                                       obstacles, NfpContainer))
           /\ nfpHistory' = Looked(piece, obstacles)
    /\ UNCHANGED HAVE_CLIPPER2 /\ UNCHANGED packingVars /\ UNCHANGED unitVars

GetValidPlacementRegions ==
    /\ nfpCall.op = "none"
    /\ \E piece \in NfpPieces, obstacles \in NfpObstacleLists :
        LET Return(r) ==
                /\ nfpManager' = r.manager
                /\ nfpCall' = [op |-> "getValidPlacementRegions", piece |-> piece,
                               obstacles |-> obstacles, regions |-> r.regions]
        IN /\ CanLook(obstacles)
           /\ Return(getValidPlacementRegions(HAVE_CLIPPER2, nfpManager, piece,
                                               obstacles, NfpContainer))
           /\ nfpHistory' = Looked(piece, obstacles)
    /\ UNCHANGED HAVE_CLIPPER2 /\ UNCHANGED packingVars /\ UNCHANGED unitVars

FindBestPlacement ==
    /\ nfpCall.op = "none"
    /\ \E piece \in NfpPieces, obstacles \in NfpObstacleLists :
        LET Return(r) ==
                /\ nfpManager' = r.manager
                /\ \E best \in bestPlacements(r.regions) :
                     nfpCall' = [op |-> "findBestPlacement", piece |-> piece,
                                 obstacles |-> obstacles, best |-> best]
        IN /\ CanLook(obstacles)
           /\ Return(getValidPlacementRegions(HAVE_CLIPPER2, nfpManager, piece,
                                               obstacles, NfpContainer))
           /\ nfpHistory' = Looked(piece, obstacles)
    /\ UNCHANGED HAVE_CLIPPER2 /\ UNCHANGED packingVars /\ UNCHANGED unitVars

ClearCache ==
    /\ nfpCall.op = "none"
    /\ nfpManager' = [nfpManager EXCEPT !.nfpCache = <<>>, !.cacheHits = 0, !.cacheMisses = 0]
    /\ nfpCall' = [op |-> "clearCache"]
    /\ nfpHistory' = NoHistory
    /\ UNCHANGED HAVE_CLIPPER2 /\ UNCHANGED packingVars /\ UNCHANGED unitVars

\* the caller has read the result of the last call
TakeNfpResult ==
    /\ nfpCall.op # "none"
    /\ nfpCall' = NoCall
    /\ UNCHANGED <<HAVE_CLIPPER2, nfpManager, nfpHistory>> /\ UNCHANGED packingVars /\ UNCHANGED unitVars

NfpNext ==
    \/ IsValidPlacement
    \/ GetValidPlacementRegions
    \/ FindBestPlacement
    \/ ClearCache
    \/ TakeNfpResult

NfpSpec == NfpInit /\ [][NfpNext]_vars

\* ------------------------------------------------------------ the loader on its own
LoadInit ==
    /\ Construct /\ HAVE_CLIPPER2 = TRUE /\ NoMArea /\ NoCompress /\ NoSearch
    /\ file \in Files /\ loadResult = NotLoaded

\* main calls loadPieces once, on the file named on the command line
LoadPieces ==
    /\ loadResult.status = "none"
    /\ loadResult' = loadPieces(file)
    /\ UNCHANGED file
    /\ UNCHANGED packingVars /\ UNCHANGED nfpVars /\ UNCHANGED mareaVars
    /\ UNCHANGED compressVars /\ UNCHANGED searchVars

LoadNext == LoadPieces

LoadSpec == LoadInit /\ [][LoadNext]_vars

\* ------------------------------------------------------------ one MArea on its own
MaxCalls == 4

\* where a caller puts a piece it has constructed
MAreaPositions == {<<0, 0>>, <<Unit, 2 * Unit>>}

MAreaInputs ==
    {placeInPosition(MArea(s, 1), at[1], at[2]) : s \in Catalogue, at \in MAreaPositions}

\* the angles of the rotate calls: the quarter turns and a full turn
MAreaAngles == {90, 180, 270, 360}

MAreaInit ==
    /\ Construct /\ HAVE_CLIPPER2 = TRUE /\ NoLoad /\ NoCompress /\ NoSearch
    /\ marea0 \in MAreaInputs /\ marea = marea0 /\ mareaCalls = <<>>

Rotate ==
    /\ Len(mareaCalls) < MaxCalls
    /\ \E degrees \in MAreaAngles :
        /\ marea' = rotate(marea, degrees)
        /\ mareaCalls' = Append(mareaCalls, degrees)
    /\ UNCHANGED marea0
    /\ UNCHANGED packingVars /\ UNCHANGED nfpVars /\ UNCHANGED loadVars
    /\ UNCHANGED compressVars /\ UNCHANGED searchVars

MAreaNext == Rotate

MAreaSpec == MAreaInit /\ [][MAreaNext]_vars

\* ----------------------------------------- compress, statement by statement
\* The bins compress is called on: what one call of boundingBoxPacking or
\* dropPieces leaves in a new bin, what moveAndReplace makes of that, what
\* dropping one more piece makes of either, and what moveAndReplace makes of
\* those.  Each goes with the number the caller gives its next piece.
AfterFirstCall ==
    { [bin |-> boundingBoxPacking(EmptyBin, pieces).bin, nextId |-> Len(pieces) + 1]
        : pieces \in InputLists(1) }
    \cup { [bin |-> dropPieces(EmptyBin, pieces).bin, nextId |-> Len(pieces) + 1]
             : pieces \in InputLists(1) }

AfterMove(calls) ==
    calls \cup { [bin |-> moveAndReplace(c.bin, 0).bin, nextId |-> c.nextId] : c \in calls }

AfterDrop(calls) ==
    calls \cup UNION { { [bin |-> dropPieces(c.bin, <<MArea(s, c.nextId)>>).bin,
                          nextId |-> c.nextId + 1] : s \in Catalogue }
                       : c \in { d \in calls : d.nextId <= MaxPieces } }

CompressInputs == AfterMove(AfterDrop(AfterMove(AfterFirstCall)))

CompressInit ==
    /\ inputPieces = <<>> /\ bins = <<>> /\ toPlace = <<>> /\ stillNotPlaced = <<>>
    /\ lastLoopUnplacedCount = 0 /\ pc = "idle" /\ g_interrupt_received = FALSE
    /\ nfpManager = NewNFPManager /\ nfpCall = NoCall /\ nfpHistory = NoHistory
    /\ HAVE_CLIPPER2 = TRUE /\ NoLoad /\ NoMArea /\ NoCompress /\ NoSearch
    /\ lastOp = "none" /\ ret = NoRet
    /\ \E c \in CompressInputs :
        /\ placedPieces = c.bin.placedPieces
        /\ freeRectangles = c.bin.freeRectangles
        /\ placedPiecesRTree = c.bin.placedPiecesRTree
        /\ nextId = c.nextId

\* what no statement of compress touches
CompressFrame ==
    /\ UNCHANGED <<freeRectangles, nextId, ret>>
    /\ UNCHANGED packVars /\ UNCHANGED g_interrupt_received
    /\ UNCHANGED nfpVars /\ UNCHANGED loadVars /\ UNCHANGED mareaVars
    /\ UNCHANGED searchVars

\* what an attempt of compressPiece leaves of the pieces and the index
CompressTaken(b) ==
    /\ placedPieces' = b.placedPieces
    /\ placedPiecesRTree' = b.placedPiecesRTree

\* the call: the early return for an empty bin, otherwise the first pass
\* starts and compressPiece(0) reaches its first attempt
CompressEnter ==
    /\ compressPc = "idle" /\ lastOp = "none"
    /\ lastOp' = "compress"
    /\ IF placedPieces = <<>>
       THEN /\ compressPc' = "returned"
            /\ UNCHANGED <<compressIndex, moved_in_pass, moved_in_iter, total_moves>>
       ELSE /\ compressPc' = "y"
            /\ compressIndex' = 1
            /\ moved_in_pass' = FALSE
            /\ moved_in_iter' = FALSE
            /\ total_moves' = 0
    /\ UNCHANGED <<placedPieces, placedPiecesRTree>>
    /\ CompressFrame

\* the attempt along y of one turn of the while loop of compressPiece
CompressStepY ==
    /\ compressPc = "y"
    /\ LET Attempt(r) ==
               /\ CompressTaken(r.bin)
               /\ moved_in_iter' = (moved_in_iter \/ r.moved)
               /\ total_moves' = total_moves + (IF r.moved THEN 1 ELSE 0)
       IN Attempt(tryMove(ThisBin, compressIndex, 0, -Unit))
    /\ compressPc' = "x"
    /\ UNCHANGED <<compressIndex, moved_in_pass, lastOp>>
    /\ CompressFrame

\* variant of CompressAfterX that takes a rejected attempt for a move
CompressAfterXRetry(movedIter, total) ==
    /\ compressPc' = "y"
    /\ moved_in_iter' = FALSE
    /\ total_moves' = total
    /\ UNCHANGED <<compressIndex, moved_in_pass>>

\* what follows the attempt along x: another turn of the while loop of
\* compressPiece, or its return, the next piece of the pass, the next pass,
\* or the return of compress
CompressAfterX(movedIter, total) ==
    IF movedIter
    THEN /\ compressPc' = "y"
         /\ moved_in_iter' = FALSE
         /\ total_moves' = total
         /\ UNCHANGED <<compressIndex, moved_in_pass>>
    ELSE LET movedPass == moved_in_pass \/ total > 0
         IN IF compressIndex < Len(placedPieces)
            THEN /\ compressPc' = "y"
                 /\ compressIndex' = compressIndex + 1
                 /\ moved_in_pass' = movedPass
                 /\ moved_in_iter' = FALSE
                 /\ total_moves' = 0
            ELSE IF movedPass
            THEN /\ compressPc' = "y"
                 /\ compressIndex' = 1
                 /\ moved_in_pass' = FALSE
                 /\ moved_in_iter' = FALSE
                 /\ total_moves' = 0
            ELSE /\ compressPc' = "returned"
                 /\ moved_in_pass' = FALSE
                 /\ moved_in_iter' = FALSE
                 /\ total_moves' = total
                 /\ UNCHANGED compressIndex

\* the attempt along x and the loop conditions that follow it
CompressStepX ==
    /\ compressPc = "x"
    /\ LET Attempt(r) ==
               /\ CompressTaken(r.bin)
               /\ CompressAfterX(moved_in_iter \/ r.moved,
                                 total_moves + (IF r.moved THEN 1 ELSE 0))
       IN Attempt(tryMove(ThisBin, compressIndex, -Unit, 0))
    /\ UNCHANGED lastOp
    /\ CompressFrame

CompressNext == CompressEnter \/ CompressStepY \/ CompressStepX

CompressSpec == CompressInit /\ [][CompressNext]_vars

\* compress is one sequential call: while it has not returned, its next
\* statement is executed
FairCompressSpec == CompressInit /\ [][CompressNext]_vars /\ WF_vars(CompressNext)

\* ------------------------------------------ findWhereToPlace, step by step
\* The code takes the parallel branch when the bin has more than 250 free
\* rectangles; the model's bins have a handful, so the threshold is scaled
\* down to the model's size.
ParallelThreshold == 1

\* the static flag that only the tests set
g_parallelism_disabled_for_tests == FALSE

\* one turn of the loop over the angles in checkPlacement: the bounding box
\* of the turned copy, the test, the wastage and, under the lock, the
\* comparison with minWastage and the update
checkAngle(freeRect, piece, i, a, best) ==
    LET angle == STAGE1_ROTATION_ANGLES[a]
        update(pieceBB) ==
            LET wastage == Min2(getWidth(freeRect) - getWidth(pieceBB),
                                getHeight(freeRect) - getHeight(pieceBB))
            IN IF /\ fits(pieceBB, freeRect)
                  /\ (best.rectIndex = -1 \/ wastage < best.minWastage)
               THEN [rectIndex |-> i, rotationAngle |-> angle, minWastage |-> wastage]
               ELSE best
    IN update(getBoundingBox2D(IF angle > 0 THEN rotate(piece, angle) ELSE piece))

\* the condition of the parallel branch, the build's part included
UsesParallel ==
    /\ useParallel /\ ~g_parallelism_disabled_for_tests
    /\ Len(freeRectangles) > ParallelThreshold
    /\ cpp_lib_parallel_algorithm

\* the bins of the calls: what one call of boundingBoxPacking or dropPieces
\* leaves in a new bin; the piece is the caller's next one
SearchInit ==
    /\ inputPieces = <<>> /\ bins = <<>> /\ toPlace = <<>> /\ stillNotPlaced = <<>>
    /\ lastLoopUnplacedCount = 0 /\ pc = "idle" /\ g_interrupt_received = FALSE
    /\ nfpManager = NewNFPManager /\ nfpCall = NoCall /\ nfpHistory = NoHistory
    /\ HAVE_CLIPPER2 = TRUE /\ NoLoad /\ NoMArea /\ NoCompress
    /\ lastOp = "none" /\ ret = NoRet
    /\ \E c \in AfterFirstCall :
        /\ placedPieces = c.bin.placedPieces
        /\ freeRectangles = c.bin.freeRectangles
        /\ placedPiecesRTree = c.bin.placedPiecesRTree
        /\ nextId = c.nextId
        /\ \E s \in Catalogue : searchPiece = MArea(s, c.nextId)
    /\ useParallel \in BOOLEAN
    /\ cpp_lib_parallel_algorithm \in BOOLEAN
    /\ bestPlacement = NoPlacement /\ searchPc = "call" /\ worker = <<>>

\* what no statement of findWhereToPlace touches
SearchFrame ==
    /\ UNCHANGED binVars /\ UNCHANGED packVars /\ UNCHANGED g_interrupt_received
    /\ UNCHANGED nfpVars /\ UNCHANGED loadVars /\ UNCHANGED mareaVars
    /\ UNCHANGED compressVars
    /\ UNCHANGED <<searchPiece, useParallel, cpp_lib_parallel_algorithm>>

\* the call with the sequential loop, from the last index to the first
FindSequential ==
    /\ searchPc = "call" /\ ~UsesParallel
    /\ bestPlacement' = findWhereToPlace(ThisBin, searchPiece)
    /\ searchPc' = "returned"
    /\ UNCHANGED worker
    /\ SearchFrame

\* the call up to std::for_each(std::execution::par, ...): every index is
\* handed to checkPlacement, in no given order and on any thread
FindParallel ==
    /\ searchPc = "call" /\ UsesParallel
    /\ worker' = [i \in 1..Len(freeRectangles) |-> 1]
    /\ searchPc' = "for_each"
    /\ UNCHANGED bestPlacement
    /\ SearchFrame

\* one turn of the angle loop of checkPlacement(i - 1); what is shared is
\* read and written under the lock
CheckPlacementStep ==
    /\ searchPc = "for_each"
    /\ \E i \in DOMAIN worker :
        /\ worker[i] <= Len(STAGE1_ROTATION_ANGLES)
        /\ bestPlacement' = checkAngle(freeRectangles[i], searchPiece, i - 1,
                                       worker[i], bestPlacement)
        /\ worker' = [worker EXCEPT ![i] = @ + 1]
    /\ UNCHANGED searchPc
    /\ SearchFrame

\* std::for_each returns when every checkPlacement has, and the call returns
\* bestPlacement
FindParallelReturn ==
    /\ searchPc = "for_each"
    /\ \A i \in DOMAIN worker : worker[i] > Len(STAGE1_ROTATION_ANGLES)
    /\ searchPc' = "returned"
    /\ UNCHANGED <<bestPlacement, worker>>
    /\ SearchFrame

SearchNext ==
    FindSequential \/ FindParallel \/ CheckPlacementStep \/ FindParallelReturn

SearchSpec == SearchInit /\ [][SearchNext]_vars

\* ===================================================================
\* Properties
\* ===================================================================
NPlaced == Len(placedPieces)
BBox(i) == getBoundingBox2D(placedPieces[i])

\* the interiors of two shapes meet (an intersection of positive area)
OverlapInArea(p, q) ==
    \E r \in p.shape : \E s \in q.shape :
        /\ r.x1 < s.x2 /\ s.x1 < r.x2 /\ r.y1 < s.y2 /\ s.y1 < r.y2

BoxOverlap(r, s) == r.x1 < s.x2 /\ s.x1 < r.x2 /\ r.y1 < s.y2 /\ s.y1 < r.y2

\* closed containment of box r in box c
BoxIn(r, c) == c.x1 <= r.x1 /\ r.x2 <= c.x2 /\ c.y1 <= r.y1 /\ r.y2 <= c.y2

NoOverlapIn(pp) ==
    \A i, j \in 1..Len(pp) : i # j => ~OverlapInArea(pp[i], pp[j])

AllInsideIn(pp) ==
    \A i \in 1..Len(pp) : BoxIn(getBoundingBox2D(pp[i]), dimension)

\* C1: non-overlap.  After any sequence of public Bin operations on a bin
\* that started empty, and in every bin pack builds and returns, no two
\* distinct placed pieces of one bin overlap in area.
NonOverlap ==
    /\ NoOverlapIn(placedPieces)
    /\ \A k \in 1..Len(bins) : NoOverlapIn(bins[k].placedPieces)

\* pack has returned a bin in which the bounding boxes of two pieces overlap
\* while the shapes interlock
NonOverlapPackWitness ==
    /\ pc = "returned"
    /\ \E k \in 1..Len(bins) :
         \E i, j \in 1..Len(bins[k].placedPieces) :
            /\ i < j
            /\ BoxOverlap(getBoundingBox2D(bins[k].placedPieces[i]),
                          getBoundingBox2D(bins[k].placedPieces[j]))

IndexConsistency ==
    placedPiecesRTree = SetToBag({RTreeValue(BBox(i), i) : i \in 1..NPlaced})

\* the candidate rectangles: corners on the bin border and on the edges of
\* the placed pieces' bounding boxes, overlapping no bounding box
EdgeXs == {0, getMaxX(dimension)}
          \cup {x \in UNION {{BBox(i).x1, BBox(i).x2} : i \in 1..NPlaced} :
                    0 <= x /\ x <= getMaxX(dimension)}
EdgeYs == {0, getMaxY(dimension)}
          \cup {y \in UNION {{BBox(i).y1, BBox(i).y2} : i \in 1..NPlaced} :
                    0 <= y /\ y <= getMaxY(dimension)}
EmptyRects ==
    {R \in {Rect(a, b, c, d) : a \in EdgeXs, b \in EdgeYs, c \in EdgeXs, d \in EdgeYs} :
        /\ R.x1 < R.x2 /\ R.y1 < R.y2
        /\ \A i \in 1..NPlaced : ~BoxOverlap(R, BBox(i))}

\* C4: after every public Bin operation every axis-aligned rectangle inside
\* the bin that overlaps no placed piece's bounding box is contained in some
\* free rectangle.  Rectangles with corners on the bin border and on the
\* pieces' bounding-box edges include all the maximal ones.
FreeRectCoverage ==
    \A R \in EmptyRects : \E k \in 1..Len(freeRectangles) : BoxIn(R, freeRectangles[k])

\* C5: no rectangle of freeRectangles is contained in another one, and every
\* free rectangle lies inside the bin; the operations that do not write
\* freeRectangles keep what the last writer left.
FreeRectMaximality ==
    /\ \A i, j \in 1..Len(freeRectangles) :
           i # j => ~contains(freeRectangles[i], freeRectangles[j])
    /\ \A i \in 1..Len(freeRectangles) : BoxIn(freeRectangles[i], dimension)
FreeRectMaximalityWitness ==
    /\ lastOp \in {"boundingBoxPacking", "placeInFreeZones", "recomputeAllFreeRectangles"}
       \/ (lastOp = "moveAndReplace" /\ ret.movement)
    /\ NPlaced >= 2
    /\ Len(freeRectangles) >= 2

\* candidate pieces: the catalogue shapes at the whole-unit positions
Probes ==
    {placeInPosition(MArea(sh, 0), x * Unit, y * Unit) :
        sh \in Catalogue, x \in 0..(BinW - 1), y \in 0..(BinH - 1)}

\* C6: the collision oracle reports a collision only when the interior of
\* the candidate overlaps the interior of a placed piece; candidates that
\* share only an edge or a corner with the placed pieces do not collide.
\* Candidates are the catalogue shapes at the whole-unit positions.
CollisionOnlyOnOverlap ==
    \A c \in Probes :
        isCollision(ThisBin, c, 0) => \E i \in 1..NPlaced : OverlapInArea(c, placedPieces[i])

\* a boundingBoxPacking step on an empty bin that is offered equal squares,
\* no more of them than the grid of the bin holds
IsSquare(p) ==
    /\ Cardinality(p.shape) = 1
    /\ getWidth(getBoundingBox2D(p)) = getHeight(getBoundingBox2D(p))
SideOf(p) == getWidth(getBoundingBox2D(p))
EqualSquaresStep ==
    /\ placedPieces = <<>>
    /\ lastOp' = "boundingBoxPacking"
    /\ LET offered == placedPieces' \o ret'.leftover
       IN /\ \A k \in 1..Len(offered) :
                 IsSquare(offered[k]) /\ SideOf(offered[k]) = SideOf(offered[1])
          /\ Len(offered) <= (getWidth(dimension) \div SideOf(offered[1]))
                             * (getHeight(dimension) \div SideOf(offered[1]))

\* C7: boundingBoxPacking of n equal axis-aligned squares of side s into an
\* empty bin, with n <= floor(W/s) * floor(H/s), places all n squares and
\* returns an empty leftover list.
EqualSquaresAllPlaced ==
    [][EqualSquaresStep => ret'.leftover = <<>> /\ Len(placedPieces') = nextId' - nextId]_vars

\* piece k stands on the floor or on the top edge of an earlier piece
RestsOn(pp, k) ==
    LET bb == getBoundingBox2D(pp[k])
    IN \/ bb.y1 = getY(dimension)
       \/ \E j \in 1..(k - 1) :
              LET s == getBoundingBox2D(pp[j])
              IN s.y2 = bb.y1 /\ s.x1 < bb.x2 /\ bb.x1 < s.x2

\* C8: every piece that dropPieces places rests on the bin floor or on the
\* top edge of an earlier placed piece below it.
DropRestsInContact ==
    [][lastOp' = "dropPieces" =>
          \A k \in (Len(placedPieces) + 1)..Len(placedPieces') : RestsOn(placedPieces', k)]_vars

\* what one compress step must preserve
Normalised(p) == placeInPosition(p, 0, 0)
CompressStepMonotone ==
    /\ Len(placedPieces') = Len(placedPieces)
    /\ \A i \in 1..Len(placedPieces) :
           LET old == placedPieces[i]
               new == placedPieces'[i]
           IN /\ Normalised(new) = Normalised(old)
              /\ getX(getBoundingBox2D(new)) <= getX(getBoundingBox2D(old))
              /\ getY(getBoundingBox2D(new)) <= getY(getBoundingBox2D(old))
              /\ BoxIn(getBoundingBox2D(old), dimension)
                     => BoxIn(getBoundingBox2D(new), dimension)
    /\ NoOverlapIn(placedPieces) => NoOverlapIn(placedPieces')

\* C9: compress never raises a piece's bbox min-x or min-y, keeps the number,
\* ids, order, shapes and rotations of the placed pieces, keeps every piece
\* that was inside the bin inside it, and creates no overlap.
CompressMonotonicity == [][lastOp' = "compress" => CompressStepMonotone]_vars
CompressMovedWitness == lastOp = "compress" /\ ret.movement /\ NPlaced >= 2

\* C10: a second compress right after a compress changes nothing: placed
\* pieces, free rectangles and index contents stay as the first call left them.
CompressIdempotence == lastOp = "compress" => compress(ThisBin) = ThisBin
CompressIdempotenceWitness == lastOp = "compress" /\ ret.movement

\* ------------------------------------------------------------ pack
Ids(pp) == {pp[i].id : i \in 1..Len(pp)}

\* the number of places, over all the bins, at which a piece with this id lies
Occurrences(id) ==
    Cardinality({<<k, i>> \in (1..Len(bins)) \X (1..MaxPack) :
                    i <= Len(bins[k].placedPieces) /\ bins[k].placedPieces[i].id = id})

\* the bounding box fits the bin in one of the stage-1 orientations
FitsBin(p) ==
    \E a \in 1..Len(STAGE1_ROTATION_ANGLES) :
        fits(getBoundingBox2D(rotate(p, STAGE1_ROTATION_ANGLES[a])), dimension)

\* C11: piece conservation.  When pack returns, every input piece (by id)
\* lies at most once in the returned bins, no bin holds a piece that was not
\* in the input, and every input piece whose bounding box fits the bin in a
\* stage-1 orientation lies in exactly one bin, also when pieces have equal
\* areas.
PieceConservation ==
    pc = "returned" =>
        /\ \A k \in 1..Len(bins) : Ids(bins[k].placedPieces) \subseteq Ids(inputPieces)
        /\ \A i \in 1..Len(inputPieces) :
              /\ Occurrences(inputPieces[i].id) <= 1
              /\ FitsBin(inputPieces[i]) => Occurrences(inputPieces[i].id) = 1

\* pack has returned for an input with two pieces of equal area and a piece
\* that fits the bin in no orientation; the pieces that fit are in the bins
PieceConservationWitness ==
    /\ pc = "returned"
    /\ \E i, j \in 1..Len(inputPieces) :
         i # j /\ getArea(inputPieces[i]) = getArea(inputPieces[j]) /\ FitsBin(inputPieces[i])
    /\ \E i \in 1..Len(inputPieces) : ~FitsBin(inputPieces[i])
    /\ \E k \in 1..Len(bins) : Len(bins[k].placedPieces) >= 2

\* an outer iteration that goes on to the next one has placed a piece in the
\* bin it opened and leaves fewer pieces than it started with; the only other
\* way out of stage 3 leaves the loop
OuterIterationProgress ==
    /\ pc = "stage3" /\ pc' = "global" =>
           /\ Len(bins'[Len(bins')].placedPieces) >= 1
           /\ Len(toPlace') < lastLoopUnplacedCount
    /\ pc = "stage3" /\ pc' \notin {"stage3", "global"} => pc' = "stage4"
    /\ pc = "global" /\ pc' = "loop" => Len(toPlace') < lastLoopUnplacedCount

\* a round of stage 2 is followed by another one only if it added a piece
Stage2ContinuesOnIncrease ==
    pc = "repack" /\ pc' = "stage2" =>
        Len(bins'[Len(bins')].placedPieces) > Len(currentBin.placedPieces)

\* C12: pack terminates.  Every call of pack returns; an outer iteration
\* either places a piece in the bin it opened, which leaves strictly fewer
\* pieces, or leaves the loop; stage 2 repeats only after a round that
\* increased the bin's placed count.
PackTerminates ==
    /\ (pc = "loop") ~> (pc = "returned")
    /\ [][OuterIterationProgress /\ Stage2ContinuesOnIncrease]_vars

\* pack has returned after a stage-2 round that added a piece and was
\* repeated, and more than one bin was opened
PackTerminatesWitness ==
    /\ pc = "returned"
    /\ Len(bins) >= 2
    /\ \E k \in 1..Len(bins) : Len(bins[k].placedPieces) >= 2

\* C13: every bin pack returns holds at least one placed piece.  A bin that
\* was opened when no remaining piece fits the bin in any rotation is not in
\* the result, so an input of such pieces only, and the empty input, yield
\* zero bins.
NoEmptyBinReturned ==
    pc = "returned" =>
        /\ \A k \in 1..Len(bins) : Len(bins[k].placedPieces) >= 1
        /\ (\A i \in 1..Len(inputPieces) : ~FitsBin(inputPieces[i])) => bins = <<>>

\* pack has returned bins for an input holding a piece that fits the bin in
\* no rotation: a bin was opened for that piece, stayed empty and was popped
NoEmptyBinReturnedWitness ==
    /\ pc = "returned"
    /\ bins # <<>>
    /\ lastLoopUnplacedCount < Len(inputPieces)
    /\ \A i \in 1..lastLoopUnplacedCount : ~FitsBin(inputPieces[i])

\* pack has returned zero bins for an input of pieces that do not fit
NoBinForUnplaceableWitness ==
    pc = "returned" /\ inputPieces # <<>> /\ bins = <<>>

\* ------------------------------------------------------------ boundingBoxPacking, failed attempts
\* the attempt that took the loop from before to after did not place the piece
NotPlacedBy(before, after) ==
    Len(after.bin.placedPieces) = Len(before.bin.placedPieces)

AttemptCheck(before, after, piece) ==
    /\ ~FitsBin(piece) => NotPlacedBy(before, after)
    /\ NotPlacedBy(before, after) =>
          /\ after.bin = before.bin
          /\ after.notPlaced = Append(before.notPlaced, piece)

AttemptAt(loopState, piece) == AttemptCheck(loopState, bbpStep(loopState, piece), piece)

\* C14: a piece boundingBoxPacking does not place is appended to the leftover
\* list as it was offered (same id, same orientation), and the bin's placed
\* sequence, free rectangles and index are what they were before the attempt;
\* a piece larger than the bin is never placed.  Stated for every attempt of
\* every call the bin can receive in its current state.
FailedAttemptLeavesBin ==
    Ready =>
        \A pieces \in InputLists(nextId) : \A k \in 1..Len(pieces) :
            AttemptAt(bbpLoop([bin |-> ThisBin, notPlaced |-> <<>>],
                              SubSeq(SortPiecesByArea(pieces), 1, k - 1)),
                      SortPiecesByArea(pieces)[k])

\* boundingBoxPacking has returned two leftover pieces from a bin that holds
\* pieces: one that fits the bin in no orientation and one that fits the bin
\* but was rejected
FailedAttemptWitness ==
    /\ lastOp = "boundingBoxPacking"
    /\ NPlaced >= 1
    /\ \E i, j \in 1..Len(ret.leftover) :
         ~FitsBin(ret.leftover[i]) /\ FitsBin(ret.leftover[j])

\* the case of BinTest.BoundingBoxPacking_PieceTooLarge
PieceTooLargeWitness ==
    /\ lastOp = "boundingBoxPacking"
    /\ NPlaced = 0
    /\ Len(ret.leftover) = 1 /\ ~FitsBin(ret.leftover[1])

\* ------------------------------------------------------------ a piece as large as the bin
IsBinSized(p) ==
    /\ getWidth(getBoundingBox2D(p)) = getWidth(dimension)
    /\ getHeight(getBoundingBox2D(p)) = getHeight(dimension)

\* the bin holds one piece, which covers it from the min-corner (0,0)
FilledBy(b, id) ==
    /\ Len(b.placedPieces) = 1
    /\ b.placedPieces[1].id = id
    /\ getBoundingBox2D(b.placedPieces[1]) = dimension
    /\ getOccupiedArea(b) = RectArea(dimension)
    /\ b.freeRectangles = <<>>

\* boundingBoxPacking on the empty bin, offered a piece as large as the bin
ExactFitAttempt ==
    /\ Ready /\ placedPieces = <<>>
    /\ lastOp' = "boundingBoxPacking"
    /\ \/ \E i \in 1..Len(placedPieces') : IsBinSized(placedPieces'[i])
       \/ \E i \in 1..Len(ret'.leftover) : IsBinSized(ret'.leftover[i])

ExactFitInPack ==
    pc = "returned" =>
        \A i \in 1..Len(inputPieces) :
            IsBinSized(inputPieces[i]) =>
                \E k \in 1..Len(bins) : FilledBy(bins[k], inputPieces[i].id)

ExactFitBinWitness ==
    lastOp = "boundingBoxPacking" /\ NPlaced = 1 /\ FilledBy(ThisBin, placedPieces[1].id)

\* ------------------------------------------------------------ the first piece of a bin
\* a call of boundingBoxPacking that left exactly one piece in the bin, which
\* was empty before
FirstPlacement ==
    /\ Ready /\ placedPieces = <<>>
    /\ lastOp' = "boundingBoxPacking"
    /\ Len(placedPieces') = 1

\* width and height of the bounding box the piece had when it was offered
OfferedW(p) ==
    IF p.rotation \in {90, 270} THEN getHeight(getBoundingBox2D(p)) ELSE getWidth(getBoundingBox2D(p))

OfferedH(p) ==
    IF p.rotation \in {90, 270} THEN getWidth(getBoundingBox2D(p)) ELSE getHeight(getBoundingBox2D(p))

FitsWH(w, h) == w <= getWidth(dimension) /\ h <= getHeight(dimension)

WastageWH(w, h) == Min2(getWidth(dimension) - w, getHeight(dimension) - h)

\* the slab above a bounding box, over the full width of the bin, and the
\* slab to its right, over the full height of the bin
Slabs(bb) ==
    (IF bb.y2 < dimension.y2 THEN {Rect(dimension.x1, bb.y2, dimension.x2, dimension.y2)} ELSE {})
    \cup
    (IF bb.x2 < dimension.x2 THEN {Rect(bb.x2, dimension.y1, dimension.x2, dimension.y2)} ELSE {})

AtMinCornerWithSlabs(p, free) ==
    /\ getX(getBoundingBox2D(p)) = getX(dimension)
    /\ getY(getBoundingBox2D(p)) = getY(dimension)
    /\ {free[i] : i \in 1..Len(free)} = Slabs(getBoundingBox2D(p))
    /\ Len(free) = Cardinality(Slabs(getBoundingBox2D(p)))

\* C16 as stated: the first piece of an empty bin lies at the bin's
\* min-corner, in rotation 0 whenever it fits unrotated, and the free
\* rectangles are exactly the slab above it and the slab to its right.
FirstPieceUnrotated ==
    [][FirstPlacement =>
        /\ AtMinCornerWithSlabs(placedPieces'[1], freeRectangles')
        /\ FitsWH(OfferedW(placedPieces'[1]), OfferedH(placedPieces'[1]))
              => placedPieces'[1].rotation = 0]_vars

\* the orientation the first piece gets: 90 when the bounding box turned by
\* 90 fits and the unrotated one does not fit or wastes strictly more, else 0
LeastWastageRotation(w, h) ==
    IF FitsWH(h, w) /\ (~FitsWH(w, h) \/ WastageWH(h, w) < WastageWH(w, h))
    THEN 90 ELSE 0

\* C16, amended: the first piece of an empty bin lies at the bin's
\* min-corner in the stage-1 orientation of least wastage (the earlier
\* angle on ties, so 0 whenever turning it gains nothing), and the free
\* rectangles are exactly the slab above its oriented bounding box and the
\* slab to its right.
FirstPieceLeastWastage ==
    [][FirstPlacement =>
        /\ AtMinCornerWithSlabs(placedPieces'[1], freeRectangles')
        /\ placedPieces'[1].rotation =
              LeastWastageRotation(OfferedW(placedPieces'[1]), OfferedH(placedPieces'[1]))]_vars

\* boundingBoxPacking has placed a first piece turned by 90 that also fits
\* unrotated, with room left beside it in both directions
FirstPieceTurnedWitness ==
    /\ lastOp = "boundingBoxPacking"
    /\ NPlaced = 1
    /\ placedPieces[1].rotation = 90
    /\ FitsWH(OfferedW(placedPieces[1]), OfferedH(placedPieces[1]))
    /\ Len(freeRectangles) = 2

\* ------------------------------------------------------------ cancellation
\* C17: once the cancellation flag is set while pack is running, pack stops
\* at its next check and returns the bins it has: at the latest at the head
\* of the outer loop, so with the flag set no further bin is opened.
CancellationStopsPack ==
    [][g_interrupt_received /\ pc = "loop" =>
          Len(bins') <= Len(bins) /\ pc' \in {"stage4", "returned"}]_vars

\* ------------------------------------------------------------ NFP validity
\* the piece at the tested position lies inside the container with a gap to
\* every obstacle
ClearlyFree(piece, position, obstacles) ==
    /\ BoxIn(TestBBox(piece, position), NfpContainer)
    /\ \A k \in 1..Len(obstacles) :
          ~intersects(TestBBox(piece, position), getBoundingBox2D(obstacles[k]))

\* the piece at the tested position overlaps the interior of an obstacle
OverlapsObstacle(piece, position, obstacles) ==
    \E k \in 1..Len(obstacles) :
        BoxOverlap(TestBBox(piece, position), getBoundingBox2D(obstacles[k]))

\* C18: the answer of isValidPlacement does not depend on earlier queries:
\* it is true when the piece at the position lies inside the container with
\* a strictly positive gap to every obstacle where that obstacle stands now,
\* and false when it would overlap the interior of an obstacle.
NfpValidityHistoryFree ==
    nfpCall.op = "isValidPlacement" =>
        /\ ClearlyFree(nfpCall.piece, nfpCall.position, nfpCall.obstacles) => nfpCall.valid
        /\ OverlapsObstacle(nfpCall.piece, nfpCall.position, nfpCall.obstacles) => ~nfpCall.valid

\* ------------------------------------------------------------ NFP cache counters
\* C19: hits + misses is the number of lookups since the last clearCache,
\* totalEntries equals misses and the number of distinct keys looked up since
\* then (so a repeated lookup is a hit and adds no entry), and clearCache
\* leaves hits, misses and totalEntries at 0.
CacheCounters ==
    /\ nfpManager.cacheHits + nfpManager.cacheMisses = nfpHistory.lookups
    /\ Cardinality(DOMAIN nfpManager.nfpCache) = nfpManager.cacheMisses
    /\ Cardinality(nfpHistory.keys) = nfpManager.cacheMisses
    /\ nfpCall.op = "clearCache" =>
          /\ nfpManager.cacheHits = 0 /\ nfpManager.cacheMisses = 0
          /\ DOMAIN nfpManager.nfpCache = {}

\* a pair was looked up a second time: one entry, one miss, a hit
CacheCountersWitness ==
    /\ nfpManager.cacheHits >= 1
    /\ nfpManager.cacheMisses >= 2
    /\ nfpHistory.lookups = MaxLookups

\* clearCache has emptied a cache that had entries and hits
CacheClearedWitness ==
    nfpCall.op = "clearCache" /\ nfpManager.cacheHits = 0

\* ------------------------------------------------------------ findBestPlacement
\* the positions of the piece's reference point that are inside the
\* inner-fit rectangle and in no obstacle's NFP, where the obstacle stands
ValidCells(piece, obstacles) ==
    computeIFP(piece, NfpContainer)
    \ UNION {computeNFP(piece, obstacles[k]) : k \in 1..Len(obstacles)}

LargestParts(parts) == {C \in parts : \A D \in parts : PathArea(D) <= PathArea(C)}

StrictlySmaller(piece) ==
    /\ getWidth(getBoundingBox2D(piece)) < getWidth(NfpContainer)
    /\ getHeight(getBoundingBox2D(piece)) < getHeight(NfpContainer)

\* C20: findBestPlacement returns nothing when there is no valid region
\* (the piece does not fit the container, or the obstacles forbid every
\* position); otherwise it returns the vertex of lowest y, and among those of
\* lowest x, of the valid region of largest area; without obstacles and with
\* a piece strictly smaller than the container that is the container's
\* min-corner.
BestPlacementIsBottomLeft ==
    nfpCall.op = "findBestPlacement" =>
        /\ IF ValidCells(nfpCall.piece, nfpCall.obstacles) = {}
           THEN nfpCall.best = "none"
           ELSE nfpCall.best \in
                    {bottomLeft(C) :
                        C \in LargestParts(Components(ValidCells(nfpCall.piece, nfpCall.obstacles)))}
        /\ (nfpCall.obstacles = <<>> /\ StrictlySmaller(nfpCall.piece)) =>
               nfpCall.best = <<getX(NfpContainer), getY(NfpContainer)>>

\* ------------------------------------------------------------ placement order
\* the pieces a call has appended to a placed sequence
Appended(before, after) == SubSeq(after, Len(before) + 1, Len(after))

PosIn(list, id) == CHOOSE k \in 1..Len(list) : list[k].id = id

\* larger pieces come first, pieces of equal area in the order of the list
\* the caller presented
InPresentedOrder(seq, presented) ==
    \A i, j \in 1..Len(seq) : i < j =>
        \/ getArea(seq[i]) > getArea(seq[j])
        \/ /\ getArea(seq[i]) = getArea(seq[j])
           /\ PosIn(presented, seq[i].id) < PosIn(presented, seq[j].id)

\* a caller of the bin numbers the pieces of its list in the list's order
InIdOrder(seq) ==
    \A i, j \in 1..Len(seq) : i < j =>
        \/ getArea(seq[i]) > getArea(seq[j])
        \/ getArea(seq[i]) = getArea(seq[j]) /\ seq[i].id < seq[j].id

\* C21: placement order.  The pieces that a call of boundingBoxPacking, of
\* boundingBoxPackingWithLookAhead, or stage 1 of pack appends to a bin's
\* placed sequence lie there in non-increasing area order, pieces of equal
\* area in the order the caller presented them.
PlacementOrder ==
    [][/\ (/\ lastOp' \in {"boundingBoxPacking", "boundingBoxPackingWithLookAhead"}
           /\ lastOp' # lastOp)
          => InIdOrder(Appended(placedPieces, placedPieces'))
       /\ (pc = "loop" /\ pc' \in {"stage2", "stage3"})
          => InPresentedOrder(bins'[Len(bins')].placedPieces, toPlace)]_vars

\* ------------------------------------------------------------ the loader
\* the line of the piece a hole line belongs to: the last piece line before
\* it, 0 when there is none
OwnerOf(lines, i) ==
    IF \E k \in 1..(i - 1) : IsPieceLine(lines[k])
    THEN MaxOf({k \in 1..(i - 1) : IsPieceLine(lines[k])}) ELSE 0

BoxOfLine(line) ==
    CHOOSE r \in PolygonOf(IF IsHoleLine(line) THEN Tail(line) ELSE line) : TRUE

\* every hole lies strictly inside the outer ring of its piece and apart
\* from the other holes of that piece
WellFormed(f) ==
    \A i \in 1..Len(f.lines) :
        (IsHoleLine(f.lines[i]) /\ OwnerOf(f.lines, i) # 0) =>
            /\ LET h == BoxOfLine(f.lines[i])
                   o == BoxOfLine(f.lines[OwnerOf(f.lines, i)])
               IN o.x1 < h.x1 /\ h.x2 < o.x2 /\ o.y1 < h.y1 /\ h.y2 < o.y2
            /\ \A j \in 1..Len(f.lines) :
                  (j # i /\ IsHoleLine(f.lines[j])
                   /\ OwnerOf(f.lines, j) = OwnerOf(f.lines, i)) =>
                      ~intersects(BoxOfLine(f.lines[i]), BoxOfLine(f.lines[j]))

\* the file has a piece, and a hole line before the first one
HoleBeforeFirstPiece(f) ==
    \E i \in 1..Len(f.lines) : IsHoleLine(f.lines[i]) /\ OwnerOf(f.lines, i) = 0

PieceLinesOf(f) == {i \in 1..Len(f.lines) : IsPieceLine(f.lines[i])}

\* the line of the k-th piece
PieceLine(f, k) ==
    CHOOSE i \in PieceLinesOf(f) : Cardinality({j \in PieceLinesOf(f) : j <= i}) = k

RECURSIVE SumBoxAreas(_)
SumBoxAreas(S) ==
    IF S = {} THEN 0
    ELSE LET i == CHOOSE q \in S : TRUE IN RectArea(i[2]) + SumBoxAreas(S \ {i})

\* the area of the k-th piece less the areas of the holes that follow it
AreaInFile(f, k) ==
    RectArea(BoxOfLine(f.lines[PieceLine(f, k)]))
    - SumBoxAreas({<<i, BoxOfLine(f.lines[i])>> :
                      i \in {j \in 1..Len(f.lines) :
                                /\ IsHoleLine(f.lines[j])
                                /\ OwnerOf(f.lines, j) = PieceLine(f, k)}})

\* C22: loader holes.  For a well-formed file, loading fails when a hole
\* line comes before the first piece; otherwise the N pieces of the file are
\* returned with the ids 1..N in file order, and every hole line is
\* subtracted from the piece parsed last before it, the N-th piece and
\* several hole lines after one piece included.
LoaderHoles ==
    (loadResult.status # "none" /\ WellFormed(file) /\ file.numPieces > 0) =>
        IF HoleBeforeFirstPiece(file) THEN loadResult.status = "nullopt"
        ELSE /\ loadResult.status = "ok"
             /\ loadResult.binDimension = Rect(0, 0, file.binWidth, file.binHeight)
             /\ Len(loadResult.pieces) = file.numPieces
             /\ \A k \in 1..file.numPieces :
                   /\ loadResult.pieces[k].id = k
                   /\ getArea(loadResult.pieces[k]) = AreaInFile(file, k)

\* ------------------------------------------------------------ rotation
\* twice the centre of a box
Centre2(bb) == <<bb.x1 + bb.x2, bb.y1 + bb.y2>>

\* what one call rotate(90) does to the piece
QuarterTurnStep ==
    mareaCalls' = Append(mareaCalls, 90) =>
        /\ getWidth(marea'.bbox) = getHeight(marea.bbox)
        /\ getHeight(marea'.bbox) = getWidth(marea.bbox)
        /\ Centre2(marea'.bbox) = Centre2(marea.bbox)
        /\ marea'.id = marea.id
        /\ getArea(marea') = getArea(marea)
        /\ marea'.rotation = (marea.rotation + 90) % 360

\* what one call rotate(360) does to the piece
FullTurnStep ==
    mareaCalls' = Append(mareaCalls, 360) =>
        /\ marea'.bbox = marea.bbox
        /\ getArea(marea') = getArea(marea)
        /\ marea'.rotation = marea.rotation

\* C23: rotation round trip.  rotate(90) swaps the width and the height of
\* the bounding box around the same centre, keeps id and area and adds 90
\* to the rotation modulo 360, which stays in [0, 360); four such calls, or
\* one rotate(360), give back the original bounding box, area and rotation.
RotationRoundTrip ==
    /\ [](/\ marea.rotation \in 0..359
          /\ mareaCalls = <<90, 90, 90, 90>> =>
                /\ marea.bbox = marea0.bbox
                /\ getArea(marea) = getArea(marea0)
                /\ marea.rotation = marea0.rotation)
    /\ [][QuarterTurnStep /\ FullTurnStep]_vars

\* a piece that is not square and does not stand at the origin has been
\* turned four times by 90 degrees
RotationRoundTripWitness ==
    /\ mareaCalls = <<90, 90, 90, 90>>
    /\ getWidth(marea0.bbox) # getHeight(marea0.bbox)
    /\ getX(marea0.bbox) # 0
    /\ Cardinality(marea0.shape) > 1

\* a piece turned to 270 degrees has been turned once more, by a full turn
FullTurnWitness ==
    /\ Len(mareaCalls) >= 2
    /\ mareaCalls[Len(mareaCalls)] = 360
    /\ marea.rotation = 270

\* ------------------------------------------------------------ free rectangles
\* C24: free rectangles are piece-free.  After boundingBoxPacking,
\* placeInFreeZones, moveAndReplace, compress and dropPieces no free
\* rectangle overlaps the interior of the bounding box a placed piece has
\* at its current position.
FreeRectsPieceFree ==
    lastOp \in {"boundingBoxPacking", "placeInFreeZones", "moveAndReplace",
                "compress", "dropPieces"} =>
        \A k \in 1..Len(freeRectangles) : \A i \in 1..NPlaced :
            ~BoxOverlap(freeRectangles[k], BBox(i))

\* ------------------------------------------------------------ compress
\* piece i, translated by (dx, dy), is inside the bin and overlaps no other
\* placed piece in area
CanShift(i, dx, dy) ==
    LET free(q) ==
            /\ BoxIn(getBoundingBox2D(q), dimension)
            /\ \A j \in 1..NPlaced : j # i => ~OverlapInArea(q, placedPieces[j])
    IN free(move(placedPieces[i], dx, dy))

\* the offsets of the piece's min corner from the bin's are whole units
WholeOffsets(p) == getX(getBoundingBox2D(p)) % Unit = 0 /\ getY(getBoundingBox2D(p)) % Unit = 0

\* C27: compress reaches a fixed point.  When compress has returned, no
\* placed piece can be translated by (0, -1) or by (-1, 0) and still be
\* inside the bin without overlapping another placed piece; a piece alone in
\* the bin, at whole-unit offsets, is at the bin's min corner.
CompressFixedPoint ==
    lastOp = "compress" =>
        /\ \A i \in 1..NPlaced : ~CanShift(i, 0, -Unit) /\ ~CanShift(i, -Unit, 0)
        /\ (NPlaced = 1 /\ WholeOffsets(placedPieces[1])) =>
               /\ getX(BBox(1)) = getX(dimension)
               /\ getY(BBox(1)) = getY(dimension)

\* C28: every statement-level step of compress either lowers the bounding-box
\* min-x or min-y of the piece at hand by one unit, the piece being inside
\* the bin afterwards and every other piece untouched, or leaves all placed
\* pieces exactly as they were; and a call of compress that has started
\* returns.
AttemptAccepted(dx, dy) ==
    /\ placedPieces' = [placedPieces EXCEPT ![compressIndex] = move(@, dx, dy)]
    /\ getX(getBoundingBox2D(placedPieces'[compressIndex]))
         = getX(BBox(compressIndex)) + dx
    /\ getY(getBoundingBox2D(placedPieces'[compressIndex]))
         = getY(BBox(compressIndex)) + dy
    /\ isInside(placedPieces'[compressIndex], dimension)
    /\ total_moves' >= 1

AttemptRejected == placedPieces' = placedPieces

CompressAttempts ==
    /\ compressPc = "y" => AttemptAccepted(0, -Unit) \/ AttemptRejected
    /\ compressPc = "x" => AttemptAccepted(-Unit, 0) \/ AttemptRejected
    /\ compressPc \in {"idle", "returned"} => AttemptRejected

CompressTerminates ==
    /\ [][CompressAttempts]_vars
    /\ (compressPc \in {"y", "x"}) ~> (compressPc = "returned")

\* the second or third piece has been moved twice by one call of
\* compressPiece and its next attempt runs into another piece
CompressTerminatesWitness ==
    /\ compressPc = "y" /\ compressIndex >= 2 /\ total_moves >= 2
    /\ isInside(move(placedPieces[compressIndex], 0, -Unit), dimension)
    /\ ~tryMove(ThisBin, compressIndex, 0, -Unit).moved

\* C29: a call moveAndReplace(indexLimit) leaves the number, the ids and the
\* order of the placed pieces as they were and every piece below indexLimit
\* where it was; it returns true exactly when some piece at an index of
\* indexLimit or above stands elsewhere (or is turned otherwise) than
\* before; and a piece that was moved has an earlier piece whose free area
\* is greater than its own area.
SamePieces(after) ==
    /\ Len(after) = NPlaced
    /\ \A i \in 1..NPlaced : after[i].id = placedPieces[i].id

\* the pieces, by 1-based index, that the call has put elsewhere
Repositioned(after, indexLimit) ==
    { i \in (indexLimit + 1)..NPlaced : after[i] # placedPieces[i] }

MoveAndReplaceFrameFor(indexLimit, r) ==
    /\ SamePieces(r.bin.placedPieces)
    /\ \A i \in 1..indexLimit : r.bin.placedPieces[i] = placedPieces[i]
    /\ r.moved <=> Repositioned(r.bin.placedPieces, indexLimit) # {}
    /\ \A i \in Repositioned(r.bin.placedPieces, indexLimit) :
           \E j \in 1..(i - 1) :
               getFreeArea(placedPieces[j]) > getArea(placedPieces[i])

MoveAndReplaceStep ==
    lastOp' = "moveAndReplace" =>
        LET Calls(stops) ==
                \A indexLimit \in 0..NPlaced :
                    (/\ stops[indexLimit + 1].bin.placedPieces = placedPieces'
                     /\ stops[indexLimit + 1].moved = ret'.movement)
                    => MoveAndReplaceFrameFor(indexLimit, stops[indexLimit + 1])
        IN Calls(marLoop(ThisBin, NPlaced, FALSE))

MoveAndReplaceFrame == [][MoveAndReplaceStep]_vars

\* C25: when a call of boundingBoxPacking places one piece, the free
\* rectangles it leaves are eliminateNonMaximal of the list that
\* computeFreeRectangles made for the piece's bounding box, and every
\* rectangle of that list, a rectangle that occurs twice included, is
\* contained in or equal to a rectangle that remains.
CoveredBy(rects, r) == \E k \in 1..Len(rects) : contains(rects[k], r)

OnePiecePlaced ==
    lastOp' = "boundingBoxPacking" /\ Len(placedPieces') = NPlaced + 1

EliminateStep ==
    OnePiecePlaced =>
        LET Kept(input) ==
                /\ freeRectangles' = eliminateNonMaximal(input)
                /\ \A i \in 1..Len(input) : CoveredBy(freeRectangles', input[i])
        IN Kept(computeFreeRectangles(freeRectangles,
                                      getBoundingBox2D(placedPieces'[NPlaced + 1])))

EliminateKeepsUnion == [][EliminateStep]_vars

\* C26: the sequential findWhereToPlace returns rectIndex -1 exactly when the
\* bounding box of the piece, turned by 0, 90, 180 or 270 degrees, fits no
\* free rectangle; otherwise it returns a fitting (free rectangle, angle)
\* pair of minimum wastage min(F.w - P.w, F.h - P.h), and among the fitting
\* pairs of that wastage the one visited first when the free rectangles are
\* taken from the last index to the first and the angles in the order 0, 90,
\* 180, 270; and the call changes nothing of the bin.
SearchPairs ==
    { <<i, a>> : i \in 1..Len(freeRectangles), a \in 1..4 }

OrientedBox(a) == getBoundingBox2D(rotate(searchPiece, 90 * (a - 1)))

PairFits(p) ==
    /\ getWidth(OrientedBox(p[2])) <= getWidth(freeRectangles[p[1]])
    /\ getHeight(OrientedBox(p[2])) <= getHeight(freeRectangles[p[1]])

PairWastage(p) ==
    LET dw == getWidth(freeRectangles[p[1]]) - getWidth(OrientedBox(p[2]))
        dh == getHeight(freeRectangles[p[1]]) - getHeight(OrientedBox(p[2]))
    IN IF dw < dh THEN dw ELSE dh

FittingPairs == { p \in SearchPairs : PairFits(p) }

MinimumPairs ==
    { p \in FittingPairs : \A q \in FittingPairs : PairWastage(p) <= PairWastage(q) }

\* the place of a pair in the sequential visiting order
VisitRank(p) == (Len(freeRectangles) - p[1]) * 4 + p[2]

ReturnsPair(p) ==
    /\ bestPlacement.rectIndex = p[1] - 1
    /\ bestPlacement.rotationAngle = 90 * (p[2] - 1)
    /\ bestPlacement.minWastage = PairWastage(p)

SequentialResult ==
    (searchPc = "returned" /\ ~UsesParallel) =>
        /\ bestPlacement.rectIndex = -1 <=> FittingPairs = {}
        /\ FittingPairs # {} =>
               \E p \in MinimumPairs :
                   /\ ReturnsPair(p)
                   /\ \A q \in MinimumPairs : VisitRank(p) <= VisitRank(q)

SearchChangesNoBin ==
    UNCHANGED <<placedPieces, freeRectangles, placedPiecesRTree>>

SequentialSearch == []SequentialResult /\ [][FindSequential => SearchChangesNoBin]_vars

\* a sequential call has returned where two free rectangles tie for the
\* minimum wastage
SequentialSearchWitness ==
    /\ searchPc = "returned" /\ ~UsesParallel
    /\ \E p, q \in MinimumPairs : p[1] # q[1]

\* C30: the parallel findWhereToPlace returns, for every interleaving of the
\* checkPlacement calls, a fitting pair of minimum wastage whose index, angle
\* and wastage belong together (rectIndex -1 when nothing fits), and that
\* pair is the one the sequential search returns, ties in the minimum
\* wastage included; no step of a checkPlacement call changes the bin.
ParallelResult ==
    (searchPc = "returned" /\ UsesParallel) =>
        /\ bestPlacement.rectIndex = -1 <=> FittingPairs = {}
        /\ FittingPairs # {} => \E p \in MinimumPairs : ReturnsPair(p)
        /\ bestPlacement = findWhereToPlace(ThisBin, searchPiece)

ParallelSearch ==
    []ParallelResult /\ [][CheckPlacementStep => SearchChangesNoBin]_vars

====
